---- MODULE Spec2Model ----
(***************************************************************************)
(* A state-machine model of the audioanalyser package:                     *)
(*   - the audio recording pipeline (modules/audio_recorder.py): Config,   *)
(*     AudioRecorder.record_audio, the signal handler, audio_recorder;     *)
(*   - the background workers and status files of the web server          *)
(*     (modules/speech_text_server.py);                                    *)
(*   - the exception behaviour of the six module entry points.             *)
(* Each group of variables has its own specification; the variables of the *)
(* other groups keep their initial values there.                           *)
(***************************************************************************)
EXTENDS Integers, Sequences, FiniteSets, TLC

VARIABLES
    \* ---- audio recorder (Spec) ----
    settings,          \* the AudioSettings record given to Config
    folderExists,      \* os.path.exists(settings.input_folder)
    mainThread,        \* threading.current_thread() is threading.main_thread()
    pc,                \* position of the audio_recorder() call
    exc,               \* exception in flight ("none" when there is none)
    result,            \* value returned by audio_recorder(): "unset", "None", "path"
    audio,             \* the PyAudio instance: "none", "live", "terminated"
    is_recording,      \* AudioRecorder.is_recording (FALSE while audio = "none":
                       \* no recorder object exists yet)
    output_file_path,  \* AudioRecorder.output_file_path: "unset", "None", "path"
    sigint,            \* installed SIGINT handler: "previous" or "recorder"
    sigterm,           \* installed SIGTERM handler: "previous" or "recorder"
    stream,            \* the input stream: "none", "open", "stopped", "closed"
    total_chunks,      \* local total_chunks of record_audio: <<>> while unbound,
                       \* <<n>> once line 175 has assigned n
    wav,               \* the WAV file at output_file_path: "absent", "open", "closed"
    iter,              \* iterations of the for loop entered so far
    reads,             \* calls of stream.read made so far
    framesRead,        \* frames returned by stream.read so far
    writes,            \* chunks written by wf.writeframes so far
    framesWritten,     \* frames written to the WAV file so far
    logged,            \* set of log records emitted
    signals,           \* signals handled by AudioRecorder.signal_handler
    sigAt,             \* history: pc at which the first signal was handled
    readsAtSig,        \* history: value of reads when the first signal was handled
    data,              \* local data of record_audio: number of the chunk it holds
                       \* (0 while unbound)
    wavChunks,         \* the chunks in the WAV file, in file order
    caller,            \* who called audio_recorder: "cli" or "endpoint"
    reply,             \* answer of the server's record_audio endpoint
    \* ---- module entry points (EntrySpec) ----
    ep,                \* the entry point that was called
    epFiles,           \* number of inputs the call iterates over
    epFault,           \* the operation that raises: [file, site, kind]
    epPc,              \* position of the call
    epFile,            \* index of the input being processed
    epOp,              \* index in FileOps(ep) of the next operation
    epExc,             \* exception in flight ("none" when there is none)
    epTries,           \* executions of the raising operation so far
    epLogged,          \* error records logged so far
    epWritten,         \* outputs written so far: set of <<file, site>>
    \* ---- web server: request handlers and worker threads (ServerSpec) ----
    reqs,              \* per request: [kind, pc, reply] of its handler
    workers,           \* per request: [pc, fault, propagated] of the thread it started
    analysisStatus,    \* content of analysis_status.txt ("absent": no file)
    recStatus,         \* content of recommendations_status.txt
    lastAnalysisRun,   \* history: outcome of the analysis run that ended last
    statusReply,       \* status last returned by get_analysis_status
    sysStdout,         \* sys.stdout: 0 at start-up, r = StringIO of request r
    oldStdout,         \* per request: sys.stdout when its handler was entered
    \* ---- one batch call: Config and file selection (BatchSpec) ----
    bFn,               \* the module function called
    bUnset,            \* the environment variables that are not set
    bFolderOk,         \* the folders named by the environment are directories
    bArg,              \* the file_path argument ("None" when omitted)
    bFiles,            \* the paths that exist in the file system
    bPc,               \* position of the call
    bExc,              \* exception in flight ("none" when there is none)
    bTodo,             \* the inputs the loop has still to visit
    bProcessed,        \* the inputs processed so far, in order
    bCloudCalls,       \* calls of the cloud SDK made so far
    bLogged,           \* set of error records logged
    \* ---- the command line interface: one run of main (CliSpec) ----
    cFlags,            \* the store_true options given: a set of option names
    cRecord,           \* args.record: "None", "default" (bare -rec) or its value
    cTranslate,        \* args.translate: [given, langs] (None when not given)
    cPositionals,      \* the positional strings of the command line, in order
    cExist,            \* the paths that are existing files
    cFault,            \* whether the function the handler calls raises
    cPc,               \* position of main
    cArgs,             \* the parsed positionals: [text, name, files]
    cInvoked,          \* the action handlers invoked so far, in order
    cCalls,            \* the module functions called so far: [fn, arg]
    cHelp,             \* parser.print_help() was called
    cLogged,           \* set of error records logged
    cOutcome,          \* "running", "returned", "raised"
    \* ---- one call of SpeechToText.process_file (TranscribeSpec) ----
    tSession,          \* the recognizer's session: "idle", "running", "canceled", "stopped"
    tDelivered,        \* the texts of the recognized events delivered, in order
    allResults,        \* the list all_results of speech_to_text_long
    done,              \* the threading.Event done is set
    tPc,               \* position of process_file
    results,           \* the list process_file got back (<<>> before the return)
    tReturned,         \* speech_to_text_long has returned
    tWrites,           \* the outputs written by this call, in order
    tOut,              \* the output files: "absent", "old" (earlier run), "new"
    tOut0,             \* the output files when process_file was entered
    tLogged            \* set of log records

recVars == <<settings, folderExists, mainThread, pc, exc, result, audio,
             is_recording, output_file_path, sigint, sigterm, stream,
             total_chunks, wav, iter, reads, framesRead, writes, framesWritten,
             logged, signals, sigAt, readsAtSig, data, wavChunks, caller,
             reply>>

epVars == <<ep, epFiles, epFault, epPc, epFile, epOp, epExc, epTries, epLogged,
            epWritten>>

srvVars == <<reqs, workers, analysisStatus, recStatus, lastAnalysisRun,
             statusReply, sysStdout,
            oldStdout>>

batchVars == <<bFn, bUnset, bFolderOk, bArg, bFiles, bPc, bExc, bTodo,
               bProcessed, bCloudCalls, bLogged>>

cliVars == <<cFlags, cRecord, cTranslate, cPositionals, cExist, cFault, cPc,
             cArgs, cInvoked, cCalls, cHelp, cLogged, cOutcome>>

trVars == <<tSession, tDelivered, allResults, done, tPc, results, tReturned,
            tWrites, tOut, tOut0, tLogged>>

vars == <<recVars, epVars, srvVars, batchVars, cliVars, trVars>>

\* The variables each group of actions leaves alone.
notRecVars == <<epVars, srvVars, batchVars, cliVars, trVars>>
notEpVars == <<recVars, srvVars, batchVars, cliVars, trVars>>
notSrvVars == <<recVars, epVars, batchVars, cliVars, trVars>>
notBatchVars == <<recVars, epVars, srvVars, cliVars, trVars>>
notCliVars == <<recVars, epVars, srvVars, batchVars, trVars>>
notTrVars == <<recVars, epVars, srvVars, batchVars, cliVars>>

-----------------------------------------------------------------------------
(* Bounds of the model *)

MaxRecordSeconds == 2
MaxSignals == 2
MaxFiles == 2
MaxRequests == 2

(* Program constants *)

paInt16 == 8
paInt24 == 4
paInt32 == 2
MinChannels == 1
MaxChannels == 2
MinRate == 8000
MaxRate == 48000
MinFileSize == 100

(* Inputs: formats include paFloat32 = 1 and paInt8 = 16, which Config     *)
(* rejects; rates and channels straddle both ends of the accepted ranges.  *)
FormatValues == {1, paInt32, paInt24, paInt16, 16}
ChannelValues == (MinChannels - 1)..(MaxChannels + 1)
RateValues == {MinRate - 1, MinRate, MaxRate, MaxRate + 1}
ChunkValues == {0, 12000, 32000}
SecondsValues == (-1)..MaxRecordSeconds

AudioSettings == [format : FormatValues, channels : ChannelValues,
                  rate : RateValues, chunk : ChunkValues,
                  record_seconds : SecondsValues]

-----------------------------------------------------------------------------
(* Config *)

\* Mutant: the rate bounds taken as exclusive.
ValidAudioSettingsStrict(s) ==
    /\ s.format \in {paInt16, paInt24, paInt32}
    /\ MinChannels <= s.channels /\ s.channels <= MaxChannels
    /\ MinRate < s.rate /\ s.rate < MaxRate

\* Mutant: the channel check left out.
ValidAudioSettingsNoChannels(s) ==
    /\ s.format \in {paInt16, paInt24, paInt32}
    /\ MinRate <= s.rate /\ s.rate <= MaxRate

\* Config.validate_audio_settings: TRUE iff no ValueError is raised.
ValidAudioSettings(s) ==
    /\ s.format \in {paInt16, paInt24, paInt32}
    /\ MinChannels <= s.channels /\ s.channels <= MaxChannels
    /\ MinRate <= s.rate /\ s.rate <= MaxRate

\* Mutant: the audio settings are validated before the folder is looked at.
ConfigInitSettingsFirst ==
    /\ pc = "start"
    /\ folderExists' = (folderExists \/ ValidAudioSettings(settings))
    /\ logged' = IF folderExists \/ ~ValidAudioSettings(settings)
                    THEN logged ELSE logged \cup {"created_dir"}
    /\ IF ValidAudioSettings(settings)
          THEN pc' = "config_ok" /\ exc' = exc
          ELSE pc' = "ar_except" /\ exc' = "ValueError"
    /\ UNCHANGED <<settings, mainThread, result, audio, is_recording,
                   output_file_path, sigint, sigterm, stream, total_chunks, wav,
                   iter, reads, framesRead, writes, framesWritten, signals,
                   sigAt, readsAtSig>>
    /\ UNCHANGED <<data, wavChunks, caller, reply>>
    /\ UNCHANGED notRecVars

\* Config.__init__: validate_directory creates the folder when it is missing,
\* then validate_audio_settings raises ValueError or returns.
ConfigInit ==
    /\ pc = "start"
    /\ folderExists' = TRUE
    /\ logged' = IF folderExists THEN logged ELSE logged \cup {"created_dir"}
    /\ IF ValidAudioSettings(settings)
          THEN pc' = "config_ok" /\ exc' = exc
          ELSE pc' = "ar_except" /\ exc' = "ValueError"
    /\ UNCHANGED <<settings, mainThread, result, audio, is_recording,
                   output_file_path, sigint, sigterm, stream, total_chunks, wav,
                   iter, reads, framesRead, writes, framesWritten, signals,
                   sigAt, readsAtSig>>
    /\ UNCHANGED <<data, wavChunks, caller, reply>>
    /\ UNCHANGED notRecVars

-----------------------------------------------------------------------------
(* AudioRecorder *)

\* AudioRecorder.__init__
AudioRecorderInit ==
    /\ pc = "config_ok"
    /\ audio' = "live"
    /\ is_recording' = FALSE
    /\ output_file_path' = "None"
    /\ pc' = "ra_entry"
    /\ UNCHANGED <<settings, folderExists, mainThread, exc, result, sigint,
                   sigterm, stream, total_chunks, wav, iter, reads, framesRead,
                   writes, framesWritten, logged, signals, sigAt, readsAtSig>>
    /\ UNCHANGED <<data, wavChunks, caller, reply>>
    /\ UNCHANGED notRecVars

\* Mutant: the handler installed without the main-thread test.
InstallSigintAnyThread ==
    /\ pc = "ra_entry"
    /\ sigint' = "recorder"
    /\ pc' = "ra_sigterm"
    /\ UNCHANGED <<settings, folderExists, mainThread, exc, result, audio,
                   is_recording, output_file_path, sigterm, stream, total_chunks,
                   wav, iter, reads, framesRead, writes, framesWritten, logged,
                   signals, sigAt, readsAtSig>>
    /\ UNCHANGED <<data, wavChunks, caller, reply>>
    /\ UNCHANGED notRecVars

\* record_audio, lines 150-151: on the main thread,
\* signal.signal(SIGINT, self.signal_handler)
InstallSigint ==
    /\ pc = "ra_entry"
    /\ mainThread
    /\ sigint' = "recorder"
    /\ pc' = "ra_sigterm"
    /\ UNCHANGED <<settings, folderExists, mainThread, exc, result, audio,
                   is_recording, output_file_path, sigterm, stream, total_chunks,
                   wav, iter, reads, framesRead, writes, framesWritten, logged,
                   signals, sigAt, readsAtSig>>
    /\ UNCHANGED <<data, wavChunks, caller, reply>>
    /\ UNCHANGED notRecVars

\* record_audio, line 152: signal.signal(SIGTERM, self.signal_handler)
InstallSigterm ==
    /\ pc = "ra_sigterm"
    /\ sigterm' = "recorder"
    /\ pc' = "ra_set"
    /\ UNCHANGED <<settings, folderExists, mainThread, exc, result, audio,
                   is_recording, output_file_path, sigint, stream, total_chunks,
                   wav, iter, reads, framesRead, writes, framesWritten, logged,
                   signals, sigAt, readsAtSig>>
    /\ UNCHANGED <<data, wavChunks, caller, reply>>
    /\ UNCHANGED notRecVars

\* record_audio, lines 153-156: not the main thread, a warning is logged
WarnNotMainThread ==
    /\ pc = "ra_entry"
    /\ ~mainThread
    /\ logged' = logged \cup {"warn_not_main_thread"}
    /\ pc' = "ra_set"
    /\ UNCHANGED <<settings, folderExists, mainThread, exc, result, audio,
                   is_recording, output_file_path, sigint, sigterm, stream,
                   total_chunks, wav, iter, reads, framesRead, writes,
                   framesWritten, signals, sigAt, readsAtSig>>
    /\ UNCHANGED <<data, wavChunks, caller, reply>>
    /\ UNCHANGED notRecVars

\* record_audio, lines 158-159
SetRecording ==
    /\ pc = "ra_set"
    /\ is_recording' = TRUE
    /\ output_file_path' = "path"
    /\ pc' = "ra_open"
    /\ UNCHANGED <<settings, folderExists, mainThread, exc, result, audio,
                   sigint, sigterm, stream, total_chunks, wav, iter, reads,
                   framesRead, writes, framesWritten, logged, signals, sigAt,
                   readsAtSig>>
    /\ UNCHANGED <<data, wavChunks, caller, reply>>
    /\ UNCHANGED notRecVars

\* record_audio, lines 161-168: self.audio.open(...) returns a stream
OpenStream ==
    /\ pc = "ra_open"
    /\ stream' = "open"
    /\ pc' = "ra_total"
    /\ UNCHANGED <<settings, folderExists, mainThread, exc, result, audio,
                   is_recording, output_file_path, sigint, sigterm, total_chunks,
                   wav, iter, reads, framesRead, writes, framesWritten, logged,
                   signals, sigAt, readsAtSig>>
    /\ UNCHANGED <<data, wavChunks, caller, reply>>
    /\ UNCHANGED notRecVars

\* record_audio, lines 169-171: self.audio.open(...) raises; log and return
OpenStreamFails ==
    /\ pc = "ra_open"
    /\ logged' = logged \cup {"exc_failed_to_open_stream"}
    /\ pc' = "ra_ret"
    /\ UNCHANGED <<settings, folderExists, mainThread, exc, result, audio,
                   is_recording, output_file_path, sigint, sigterm, stream,
                   total_chunks, wav, iter, reads, framesRead, writes,
                   framesWritten, signals, sigAt, readsAtSig>>
    /\ UNCHANGED <<data, wavChunks, caller, reply>>
    /\ UNCHANGED notRecVars

\* int(a / b) for b > 0: Python's int() truncates towards zero.
TruncDiv(a, b) == IF a >= 0 THEN a \div b ELSE -((-a) \div b)

\* int(rate / chunk * record_seconds), for chunk > 0. For the values of
\* RateValues, ChunkValues and SecondsValues the double-precision result
\* equals the truncated exact quotient.
TotalChunks(s) == TruncDiv(s.rate * s.record_seconds, s.chunk)

\* record_audio, lines 175-179; chunk = 0 raises ZeroDivisionError
ComputeTotalChunks ==
    /\ pc = "ra_total"
    /\ IF settings.chunk = 0
          THEN /\ exc' = "ZeroDivisionError"
               /\ pc' = "ra_except"
               /\ UNCHANGED total_chunks
          ELSE /\ total_chunks' = <<TotalChunks(settings)>>
               /\ pc' = "ra_wave"
               /\ UNCHANGED exc
    /\ UNCHANGED <<settings, folderExists, mainThread, result, audio,
                   is_recording, output_file_path, sigint, sigterm, stream, wav,
                   iter, reads, framesRead, writes, framesWritten, logged,
                   signals, sigAt, readsAtSig>>
    /\ UNCHANGED <<data, wavChunks, caller, reply>>
    /\ UNCHANGED notRecVars

\* record_audio, lines 181-191: wave.open(path, "wb") creates the file; the
\* channel count, sample width and frame rate are set; the progress bar opens
WaveOpen ==
    /\ pc = "ra_wave"
    /\ wav' = "open"
    /\ pc' = "loop"
    /\ UNCHANGED <<settings, folderExists, mainThread, exc, result, audio,
                   is_recording, output_file_path, sigint, sigterm, stream,
                   total_chunks, iter, reads, framesRead, writes, framesWritten,
                   logged, signals, sigAt, readsAtSig>>
    /\ UNCHANGED <<data, wavChunks, caller, reply>>
    /\ UNCHANGED notRecVars

\* record_audio, lines 192-194: the for statement takes the next element of
\* range(total_chunks); the body first tests the stop flag
LoopCheck ==
    /\ pc = "loop"
    /\ IF iter < total_chunks[1]
          THEN /\ iter' = iter + 1
               /\ pc' = IF is_recording THEN "read" ELSE "wave_close"
          ELSE /\ iter' = iter
               /\ pc' = "wave_close"
    /\ UNCHANGED <<settings, folderExists, mainThread, exc, result, audio,
                   is_recording, output_file_path, sigint, sigterm, stream,
                   total_chunks, wav, reads, framesRead, writes, framesWritten,
                   logged, signals, sigAt, readsAtSig>>
    /\ UNCHANGED <<data, wavChunks, caller, reply>>
    /\ UNCHANGED notRecVars

\* record_audio, line 195: stream.read(chunk) returns chunk frames
StreamRead ==
    /\ pc = "read"
    /\ reads' = reads + 1
    /\ framesRead' = framesRead + settings.chunk
    /\ data' = data + 1
    /\ pc' = "write"
    /\ UNCHANGED <<settings, folderExists, mainThread, exc, result, audio,
                   is_recording, output_file_path, sigint, sigterm, stream,
                   total_chunks, wav, iter, writes, framesWritten, logged,
                   signals, sigAt, readsAtSig>>
    /\ UNCHANGED <<wavChunks, caller, reply>>
    /\ UNCHANGED notRecVars

\* record_audio, line 195: stream.read(chunk) raises (input overflow, device)
StreamReadRaises ==
    /\ pc = "read"
    /\ reads' = reads + 1
    /\ exc' = "IOError"
    /\ pc' = "wave_close_exc"
    /\ UNCHANGED <<settings, folderExists, mainThread, result, audio,
                   is_recording, output_file_path, sigint, sigterm, stream,
                   total_chunks, wav, iter, framesRead, writes, framesWritten,
                   logged, signals, sigAt, readsAtSig>>
    /\ UNCHANGED <<data, wavChunks, caller, reply>>
    /\ UNCHANGED notRecVars

\* Mutant: the chunk is written twice.
WriteFramesTwice ==
    /\ pc = "write"
    /\ writes' = writes + 2
    /\ framesWritten' = framesWritten + 2 * settings.chunk
    /\ wavChunks' = Append(Append(wavChunks, data), data)
    /\ pc' = "loop"
    /\ UNCHANGED <<settings, folderExists, mainThread, exc, result, audio,
                   is_recording, output_file_path, sigint, sigterm, stream,
                   total_chunks, wav, iter, reads, framesRead, logged, signals,
                   sigAt, readsAtSig>>
    /\ UNCHANGED <<data, caller, reply>>
    /\ UNCHANGED notRecVars

\* record_audio, lines 196-197: wf.writeframes(data); pbar.update(1)
WriteFrames ==
    /\ pc = "write"
    /\ writes' = writes + 1
    /\ framesWritten' = framesWritten + settings.chunk
    /\ wavChunks' = Append(wavChunks, data)
    /\ pc' = "loop"
    /\ UNCHANGED <<settings, folderExists, mainThread, exc, result, audio,
                   is_recording, output_file_path, sigint, sigterm, stream,
                   total_chunks, wav, iter, reads, framesRead, logged, signals,
                   sigAt, readsAtSig>>
    /\ UNCHANGED <<data, caller, reply>>
    /\ UNCHANGED notRecVars

\* record_audio, line 196: wf.writeframes(data) raises (disk full)
WriteFramesRaises ==
    /\ pc = "write"
    /\ exc' = "IOError"
    /\ pc' = "wave_close_exc"
    /\ UNCHANGED <<settings, folderExists, mainThread, result, audio,
                   is_recording, output_file_path, sigint, sigterm, stream,
                   total_chunks, wav, iter, reads, framesRead, writes,
                   framesWritten, logged, signals, sigAt, readsAtSig>>
    /\ UNCHANGED <<data, wavChunks, caller, reply>>
    /\ UNCHANGED notRecVars

\* end of the with blocks of lines 181-197: Wave_write.__exit__ closes the
\* file, which writes (or patches) the header
WaveClose ==
    /\ pc \in {"wave_close", "wave_close_exc"}
    /\ wav' = "closed"
    /\ pc' = IF pc = "wave_close" THEN "finally" ELSE "ra_except"
    /\ UNCHANGED <<settings, folderExists, mainThread, exc, result, audio,
                   is_recording, output_file_path, sigint, sigterm, stream,
                   total_chunks, iter, reads, framesRead, writes, framesWritten,
                   logged, signals, sigAt, readsAtSig>>
    /\ UNCHANGED <<data, wavChunks, caller, reply>>
    /\ UNCHANGED notRecVars

\* record_audio, lines 199-202: except Exception: logger.exception(...)
LogRecordingError ==
    /\ pc = "ra_except"
    /\ logged' = logged \cup {"exc_recording_or_writing"}
    /\ exc' = "none"
    /\ pc' = "finally"
    /\ UNCHANGED <<settings, folderExists, mainThread, result, audio,
                   is_recording, output_file_path, sigint, sigterm, stream,
                   total_chunks, wav, iter, reads, framesRead, writes,
                   framesWritten, signals, sigAt, readsAtSig>>
    /\ UNCHANGED <<data, wavChunks, caller, reply>>
    /\ UNCHANGED notRecVars

\* record_audio, line 204: stream.stop_stream()
StopStream ==
    /\ pc = "finally"
    /\ stream' = "stopped"
    /\ pc' = "fin_close"
    /\ UNCHANGED <<settings, folderExists, mainThread, exc, result, audio,
                   is_recording, output_file_path, sigint, sigterm, total_chunks,
                   wav, iter, reads, framesRead, writes, framesWritten, logged,
                   signals, sigAt, readsAtSig>>
    /\ UNCHANGED <<data, wavChunks, caller, reply>>
    /\ UNCHANGED notRecVars

\* record_audio, line 205: stream.close()
CloseStream ==
    /\ pc = "fin_close"
    /\ stream' = "closed"
    /\ pc' = "fin_term"
    /\ UNCHANGED <<settings, folderExists, mainThread, exc, result, audio,
                   is_recording, output_file_path, sigint, sigterm, total_chunks,
                   wav, iter, reads, framesRead, writes, framesWritten, logged,
                   signals, sigAt, readsAtSig>>
    /\ UNCHANGED <<data, wavChunks, caller, reply>>
    /\ UNCHANGED notRecVars

\* record_audio, lines 206-208: self.audio.terminate(); is_recording = False;
\* the "File saved as" record is logged
Terminate ==
    /\ pc = "fin_term"
    /\ audio' = "terminated"
    /\ is_recording' = FALSE
    /\ logged' = logged \cup {"info_file_saved"}
    /\ pc' = "validate"
    /\ UNCHANGED <<settings, folderExists, mainThread, exc, result,
                   output_file_path, sigint, sigterm, stream, total_chunks, wav,
                   iter, reads, framesRead, writes, framesWritten, signals,
                   sigAt, readsAtSig>>
    /\ UNCHANGED <<data, wavChunks, caller, reply>>
    /\ UNCHANGED notRecVars

\* audio.get_sample_size(format) for the formats Config accepts
SampleSize(format) ==
    IF format = paInt16 THEN 2 ELSE IF format = paInt24 THEN 3 ELSE 4

\* os.path.getsize of the closed WAV file: the 44-byte RIFF header that
\* Wave_write writes, then the frames
FileSize ==
    44 + framesWritten * settings.channels * SampleSize(settings.format)

\* Mutant: a missing output file makes validate_output_file raise.
ValidateOutputFileRaising ==
    /\ pc = "validate"
    /\ logged' = IF wav = "absent"
                    THEN logged \cup {"error_file_missing"}
                    ELSE IF FileSize < MinFileSize
                            THEN logged \cup {"warn_file_small"}
                            ELSE logged
    /\ exc' = IF wav = "absent" THEN "FileNotFoundError" ELSE exc
    /\ pc' = IF wav = "absent" THEN "ar_except" ELSE "ra_ret"
    /\ UNCHANGED <<settings, folderExists, mainThread, result, audio,
                   is_recording, output_file_path, sigint, sigterm, stream,
                   total_chunks, wav, iter, reads, framesRead, writes,
                   framesWritten, signals, sigAt, readsAtSig>>
    /\ UNCHANGED <<data, wavChunks, caller, reply>>
    /\ UNCHANGED notRecVars

\* AudioRecorder.validate_output_file, called at line 210
ValidateOutputFile ==
    /\ pc = "validate"
    /\ logged' = IF wav = "absent"
                    THEN logged \cup {"error_file_missing"}
                    ELSE IF FileSize < MinFileSize
                            THEN logged \cup {"warn_file_small"}
                            ELSE logged
    /\ pc' = "ra_ret"
    /\ UNCHANGED <<settings, folderExists, mainThread, exc, result, audio,
                   is_recording, output_file_path, sigint, sigterm, stream,
                   total_chunks, wav, iter, reads, framesRead, writes,
                   framesWritten, signals, sigAt, readsAtSig>>
    /\ UNCHANGED <<data, wavChunks, caller, reply>>
    /\ UNCHANGED notRecVars

\* AudioRecorder.signal_handler, run when a signal whose handler is the
\* recorder's arrives; the interpreter runs it between two steps of the
\* main thread
SignalHandler(sig) ==
    /\ signals < MaxSignals
    /\ \/ sig = "SIGINT" /\ sigint = "recorder"
       \/ sig = "SIGTERM" /\ sigterm = "recorder"
    /\ is_recording' = FALSE
    /\ logged' = logged \cup {"info_signal_received"}
    /\ signals' = signals + 1
    /\ sigAt' = IF signals = 0 THEN pc ELSE sigAt
    /\ readsAtSig' = IF signals = 0 THEN reads ELSE readsAtSig
    /\ UNCHANGED <<settings, folderExists, mainThread, pc, exc, result, audio,
                   output_file_path, sigint, sigterm, stream, total_chunks, wav,
                   iter, reads, framesRead, writes, framesWritten>>
    /\ UNCHANGED <<data, wavChunks, caller, reply>>
    /\ UNCHANGED notRecVars

-----------------------------------------------------------------------------
(* audio_recorder *)

\* audio_recorder, line 260: return recorder.output_file_path
AudioRecorderReturn ==
    /\ pc = "ra_ret"
    /\ result' = output_file_path
    /\ pc' = "returned"
    /\ UNCHANGED <<settings, folderExists, mainThread, exc, audio, is_recording,
                   output_file_path, sigint, sigterm, stream, total_chunks, wav,
                   iter, reads, framesRead, writes, framesWritten, logged,
                   signals, sigAt, readsAtSig>>
    /\ UNCHANGED <<data, wavChunks, caller, reply>>
    /\ UNCHANGED notRecVars

\* audio_recorder, lines 261-263: except Exception: log, return None
AudioRecorderExcept ==
    /\ pc = "ar_except"
    /\ logged' = logged \cup {"exc_error_in_audio_recorder"}
    /\ exc' = "none"
    /\ result' = "None"
    /\ pc' = "returned"
    /\ UNCHANGED <<settings, folderExists, mainThread, audio, is_recording,
                   output_file_path, sigint, sigterm, stream, total_chunks, wav,
                   iter, reads, framesRead, writes, framesWritten, signals,
                   sigAt, readsAtSig>>
    /\ UNCHANGED <<data, wavChunks, caller, reply>>
    /\ UNCHANGED notRecVars

\* speech_text_server.py, record_audio endpoint, lines 91-108: None makes it
\* raise and answer with status 500; any other value is answered with
\* 'Recording completed' and recorded_file
RecordAudioReply ==
    /\ pc = "returned"
    /\ caller = "endpoint"
    /\ reply' = IF result = "None" THEN "error_500" ELSE "completed"
    /\ logged' = IF result = "None"
                    THEN logged \cup {"cherrypy_error_during_audio_recording"}
                    ELSE logged
    /\ pc' = "replied"
    /\ UNCHANGED <<settings, folderExists, mainThread, exc, result, audio,
                   is_recording, output_file_path, sigint, sigterm, stream,
                   total_chunks, wav, iter, reads, framesRead, writes,
                   framesWritten, signals, sigAt, readsAtSig, data, wavChunks,
                   caller>>
    /\ UNCHANGED notRecVars

-----------------------------------------------------------------------------
(* The module entry points and what they do with an exception raised         *)
(* beneath them. One call is modelled: it builds its Config, then performs   *)
(* FileOps(ep) for each of its inputs; at most one operation raises.         *)

EntryPoints == {"audio_recorder", "transcribe_audio_files", "analyze_text_files",
                "azure_recommendation", "azure_translator", "text_to_speech"}

\* The operations performed for one input, in program order.
FileOps(e) ==
    CASE e = "audio_recorder" -> <<"pyaudio_init", "stream_open", "read_write">>
      [] e = "transcribe_audio_files" ->
            <<"recognize", "write_txt", "write_json", "write_sqlite">>
      [] e = "analyze_text_files" ->
            <<"read_text", "analyze", "write_txt", "write_json", "write_sqlite">>
      [] e = "azure_recommendation" ->
            <<"read_text", "completion", "write_txt", "write_json", "write_sqlite">>
      [] e = "azure_translator" ->
            <<"read_text", "request", "write_json", "write_sqlite", "write_txt">>
      [] e = "text_to_speech" -> <<"synthesize", "write_audio">>

WriteSites == {"write_txt", "write_json", "write_sqlite", "write_audio"}

\* audio_recorder and text_to_speech handle one input per call; the batch
\* entry points iterate over the files of a folder.
InputCounts(e) ==
    IF e \in {"audio_recorder", "text_to_speech"} THEN {1} ELSE 0..MaxFiles

NoFault == [file |-> 0, site |-> "none", kind |-> "none"]

\* kind "expected" is the exception class a local handler of that operation
\* names (IOError for a file operation, requests.RequestException for the
\* request); kind "other" is any other subclass of Exception.
FaultKinds == {"expected", "other"}

Faults(e, n) ==
    {NoFault}
    \cup {[file |-> 0, site |-> "config", kind |-> k] : k \in FaultKinds}
    \cup (IF e = "text_to_speech"
             THEN {[file |-> 0, site |-> "args", kind |-> "other"]}
             ELSE {})
    \cup {[file |-> f, site |-> FileOps(e)[i], kind |-> k] :
             f \in 1..n, i \in 1..Len(FileOps(e)), k \in FaultKinds}

\* Mutant: transcribe_audio_files without its try/except.
TopLevelTranscribeUnprotected(e) ==
    CASE e \in {"audio_recorder", "analyze_text_files", "azure_recommendation"}
            -> "catch"
      [] e = "text_to_speech" -> "reraise"
      [] OTHER -> "none"

\* The handler that encloses the body of the entry point: "catch" is
\* except Exception: log, return; "reraise" is except Exception: log, raise;
\* "none" is no try statement at all.
TopLevel(e) ==
    CASE e \in {"audio_recorder", "transcribe_audio_files", "analyze_text_files",
                "azure_recommendation"} -> "catch"
      [] e = "text_to_speech" -> "reraise"
      [] e = "azure_translator" -> "none"

\* Mutant: analyze_text_files with a handler around each file that logs and
\* goes on with the next file.
LocalHandlerAnalysisSkipsFile(e, site, k) ==
    CASE e = "audio_recorder" /\ site \in {"stream_open", "read_write"} -> "return"
      [] e = "azure_translator" /\ site = "read_text" /\ k = "expected" -> "continue"
      [] e = "azure_translator" /\ site = "request" /\ k = "expected" -> "skip_file"
      [] e = "azure_translator" /\ site = "write_txt" /\ k = "expected" -> "continue"
      [] e = "text_to_speech" /\ site = "synthesize" -> "log_reraise"
      [] e = "analyze_text_files" -> "skip_file"
      [] OTHER -> "none"

\* The handler inside the callee that an exception of kind k raised by the
\* operation meets first: "return" logs and leaves the call normally,
\* "continue" logs and goes on with the next operation, "skip_file" logs and
\* goes on with the next input, "log_reraise" logs and raises again.
LocalHandler(e, site, k) ==
    CASE e = "audio_recorder" /\ site \in {"stream_open", "read_write"} -> "return"
      [] e = "azure_translator" /\ site = "read_text" /\ k = "expected" -> "continue"
      [] e = "azure_translator" /\ site = "request" /\ k = "expected" -> "skip_file"
      [] e = "azure_translator" /\ site = "write_txt" /\ k = "expected" -> "continue"
      [] e = "text_to_speech" /\ site = "synthesize" -> "log_reraise"
      [] OTHER -> "none"

\* Entering the entry point; text_to_speech validates its arguments first,
\* outside its try statement.
EpCall ==
    /\ epPc = "called"
    /\ IF ep = "text_to_speech" /\ epFault.site = "args"
          THEN /\ epExc' = "ValueError"
               /\ epTries' = epTries + 1
               /\ epPc' = "raised"
          ELSE /\ epPc' = "config"
               /\ UNCHANGED <<epExc, epTries>>
    /\ UNCHANGED <<ep, epFiles, epFault, epFile, epOp, epLogged, epWritten>>
    /\ UNCHANGED notEpVars

\* config = Config(): the first statement of every entry point's body
EpConfig ==
    /\ epPc = "config"
    /\ IF epFault.site = "config"
          THEN /\ epExc' = epFault.kind
               /\ epTries' = epTries + 1
               /\ epPc' = "unwind"
               /\ UNCHANGED <<epFile, epOp>>
          ELSE /\ epPc' = "op"
               /\ epFile' = 1
               /\ epOp' = 1
               /\ UNCHANGED <<epExc, epTries>>
    /\ UNCHANGED <<ep, epFiles, epFault, epLogged, epWritten>>
    /\ UNCHANGED notEpVars

\* One operation on the current input.
EpOp ==
    /\ epPc = "op"
    /\ epFile <= epFiles
    /\ LET site == FileOps(ep)[epOp]
           raises == epFault.file = epFile /\ epFault.site = site
           h == LocalHandler(ep, site, epFault.kind)
           last == epOp = Len(FileOps(ep))
       IN  IF raises
              THEN /\ epTries' = epTries + 1
                   /\ epLogged' = IF h = "none" THEN epLogged ELSE epLogged + 1
                   /\ UNCHANGED epWritten
                   /\ CASE h = "continue" ->
                             /\ epFile' = IF last THEN epFile + 1 ELSE epFile
                             /\ epOp' = IF last THEN 1 ELSE epOp + 1
                             /\ UNCHANGED <<epPc, epExc>>
                        [] h = "skip_file" ->
                             /\ epFile' = epFile + 1
                             /\ epOp' = 1
                             /\ UNCHANGED <<epPc, epExc>>
                        [] h = "return" ->
                             /\ epFile' = epFiles + 1
                             /\ epOp' = 1
                             /\ UNCHANGED <<epPc, epExc>>
                        [] OTHER ->
                             /\ epExc' = epFault.kind
                             /\ epPc' = "unwind"
                             /\ UNCHANGED <<epFile, epOp>>
              ELSE /\ epWritten' = IF site \in WriteSites
                                      THEN epWritten \cup {<<epFile, site>>}
                                      ELSE epWritten
                   /\ epFile' = IF last THEN epFile + 1 ELSE epFile
                   /\ epOp' = IF last THEN 1 ELSE epOp + 1
                   /\ UNCHANGED <<epPc, epExc, epTries, epLogged>>
    /\ UNCHANGED <<ep, epFiles, epFault>>
    /\ UNCHANGED notEpVars

\* except Exception as e: logger.error(...) and the function ends
EpCatch ==
    /\ epPc = "unwind"
    /\ TopLevel(ep) = "catch"
    /\ epLogged' = epLogged + 1
    /\ epExc' = "none"
    /\ epPc' = "returned"
    /\ UNCHANGED <<ep, epFiles, epFault, epFile, epOp, epTries, epWritten>>
    /\ UNCHANGED notEpVars

\* except Exception as e: logger.error(...); raise
EpReraise ==
    /\ epPc = "unwind"
    /\ TopLevel(ep) = "reraise"
    /\ epLogged' = epLogged + 1
    /\ epPc' = "raised"
    /\ UNCHANGED <<ep, epFiles, epFault, epFile, epOp, epExc, epTries, epWritten>>
    /\ UNCHANGED notEpVars

\* no try statement: the exception leaves the entry point
EpPropagate ==
    /\ epPc = "unwind"
    /\ TopLevel(ep) = "none"
    /\ epPc' = "raised"
    /\ UNCHANGED <<ep, epFiles, epFault, epFile, epOp, epExc, epTries, epLogged,
                   epWritten>>
    /\ UNCHANGED notEpVars

\* the loop over the inputs is exhausted: the entry point returns
EpReturn ==
    /\ epPc = "op"
    /\ epFile > epFiles
    /\ epPc' = "returned"
    /\ UNCHANGED <<ep, epFiles, epFault, epFile, epOp, epExc, epTries, epLogged,
                   epWritten>>
    /\ UNCHANGED notEpVars

EpInit ==
    /\ ep \in EntryPoints
    /\ epFiles \in InputCounts(ep)
    /\ epFault \in Faults(ep, epFiles)
    /\ epPc = "called"
    /\ epFile = 0
    /\ epOp = 0
    /\ epExc = "none"
    /\ epTries = 0
    /\ epLogged = 0
    /\ epWritten = {}

\* No entry point under call (the other specifications).
EpIdle ==
    /\ ep = "none"
    /\ epFiles = 0
    /\ epFault = NoFault
    /\ epPc = "idle"
    /\ epFile = 0
    /\ epOp = 0
    /\ epExc = "none"
    /\ epTries = 0
    /\ epLogged = 0
    /\ epWritten = {}

-----------------------------------------------------------------------------
(* The web server: the handlers that start a background job, the worker     *)
(* threads, and the status files                                            *)

RequestIds == 1..MaxRequests

JobKinds == {"analysis", "recommendations", "translation"}

\* What can go wrong in a job: nothing, a missing environment variable
\* (Config raises), or a failed call of the cloud service.
JobFaults(e) ==
    {NoFault,
     [file |-> 0, site |-> "config", kind |-> "expected"],
     [file |-> 1, site |-> FileOps(e)[2], kind |-> "other"]}

\* Whether the exception of fault f leaves entry point e: it is not handled
\* where it is raised and the entry point's own handler does not end it.
JobPropagates(e, f) ==
    /\ f # NoFault
    /\ \/ f.site \in {"config", "args"}
       \/ LocalHandler(e, f.site, f.kind) \in {"none", "log_reraise"}
    /\ TopLevel(e) # "catch"

\* analyze_text_files is declared async def; azure_recommendation is a plain
\* def, so asyncio.run(azure_recommendation()) runs it to its end and is
\* then handed None, which it rejects with ValueError.
IsCoroutineFunction(e) == e = "analyze_text_files"

\* get_analysis_status: the content of the status file, "Processing" when
\* there is none
StatusReply(file) == IF file = "absent" THEN "Processing" ELSE file

\* Requests are numbered in the order in which their handlers are entered.
NextRequest(r) ==
    /\ reqs[r].pc = "idle"
    /\ IF r = 1 THEN TRUE ELSE reqs[r - 1].pc # "idle"

\* The try block of a handler: threading.Thread(target=...), thread.start()
Started(r, kind) ==
    [reqs EXCEPT ![r] = [kind |-> kind, pc |-> "started", reply |-> "none"]]

Spawned(r) ==
    [workers EXCEPT ![r] = [pc |-> "running", fault |-> NoFault,
                            propagated |-> FALSE]]

\* Mutant: a request is refused while an analysis worker is live.
ProcessTextAnalysisSerialised(r) ==
    /\ NextRequest(r)
    /\ \A q \in RequestIds :
          reqs[q].kind = "analysis" => workers[q].pc \in {"none", "ended"}
    /\ reqs' = Started(r, "analysis")
    /\ workers' = Spawned(r)
    /\ UNCHANGED <<analysisStatus, recStatus, lastAnalysisRun, statusReply>>
    /\ UNCHANGED <<sysStdout, oldStdout>>
    /\ UNCHANGED notSrvVars

ProcessTextAnalysis(r) ==
    /\ NextRequest(r)
    /\ reqs' = Started(r, "analysis")
    /\ workers' = Spawned(r)
    /\ UNCHANGED <<analysisStatus, recStatus, lastAnalysisRun, statusReply>>
    /\ UNCHANGED <<sysStdout, oldStdout>>
    /\ UNCHANGED notSrvVars

GenerateRecommendations(r) ==
    /\ NextRequest(r)
    /\ reqs' = Started(r, "recommendations")
    /\ workers' = Spawned(r)
    /\ UNCHANGED <<analysisStatus, recStatus, lastAnalysisRun, statusReply>>
    /\ UNCHANGED <<sysStdout, oldStdout>>
    /\ UNCHANGED notSrvVars

ProcessAllTranslations(r) ==
    /\ NextRequest(r)
    /\ reqs' = Started(r, "translation")
    /\ workers' = Spawned(r)
    /\ UNCHANGED <<analysisStatus, recStatus, lastAnalysisRun, statusReply>>
    /\ UNCHANGED <<sysStdout, oldStdout>>
    /\ UNCHANGED notSrvVars

\* Mutant: the handler joins the thread before it answers.
ReturnStartedAfterJoin(r) ==
    /\ reqs[r].pc = "started"
    /\ workers[r].pc = "ended"
    /\ reqs' = [reqs EXCEPT ![r].pc = "replied", ![r].reply = "started"]
    /\ UNCHANGED <<workers, analysisStatus, recStatus, lastAnalysisRun,
                   statusReply>>
    /\ UNCHANGED <<sysStdout, oldStdout>>
    /\ UNCHANGED notSrvVars

\* The return statement that follows thread.start() in the three handlers
ReturnStarted(r) ==
    /\ reqs[r].pc = "started"
    /\ reqs' = [reqs EXCEPT ![r].pc = "replied", ![r].reply = "started"]
    /\ UNCHANGED <<workers, analysisStatus, recStatus, lastAnalysisRun,
                   statusReply>>
    /\ UNCHANGED <<sysStdout, oldStdout>>
    /\ UNCHANGED notSrvVars

\* The except branch of a handler: the thread could not be created or
\* started (or, for process_all_translations, the request has no JSON
\* object); an error is returned and no worker runs
HandlerFails(r, kind) ==
    /\ NextRequest(r)
    /\ reqs' = [reqs EXCEPT ![r] = [kind |-> kind, pc |-> "replied",
                                    reply |-> "error"]]
    /\ UNCHANGED <<workers, analysisStatus, recStatus, lastAnalysisRun,
                   statusReply>>
    /\ UNCHANGED <<sysStdout, oldStdout>>
    /\ UNCHANGED notSrvVars

\* asyncio.run(job(...)) ended, normally or with an exception: the worker
\* after the job met fault f
Ran(r, e, f) ==
    [workers EXCEPT ![r] =
        [pc |-> "ran", fault |-> f,
         propagated |-> JobPropagates(e, f) \/ ~IsCoroutineFunction(e)]]

\* run_analysis_thread, line 163: asyncio.run(analyze_text_files(file_paths))
RunAnalysis(r) ==
    /\ reqs[r].kind = "analysis"
    /\ workers[r].pc = "running"
    /\ \E f \in JobFaults("analyze_text_files") :
          workers' = Ran(r, "analyze_text_files", f)
    /\ UNCHANGED <<reqs, analysisStatus, recStatus, lastAnalysisRun, statusReply>>
    /\ UNCHANGED <<sysStdout, oldStdout>>
    /\ UNCHANGED notSrvVars

\* run_recommendations_thread, line 326: asyncio.run(azure_recommendation())
RunRecommendations(r) ==
    /\ reqs[r].kind = "recommendations"
    /\ workers[r].pc = "running"
    /\ \E f \in JobFaults("azure_recommendation") :
          workers' = Ran(r, "azure_recommendation", f)
    /\ UNCHANGED <<reqs, analysisStatus, recStatus, lastAnalysisRun, statusReply>>
    /\ UNCHANGED <<sysStdout, oldStdout>>
    /\ UNCHANGED notSrvVars

\* run_analysis_thread, lines 164-168: "Completed" after the try block ran
\* through, "Error: ..." from the except branch
WriteAnalysisStatus(r) ==
    /\ reqs[r].kind = "analysis"
    /\ workers[r].pc = "ran"
    /\ analysisStatus' = IF workers[r].propagated THEN "Error" ELSE "Completed"
    /\ lastAnalysisRun' = IF workers[r].fault = NoFault THEN "succeeded"
                                                        ELSE "failed"
    /\ workers' = [workers EXCEPT ![r].pc = "ended"]
    /\ UNCHANGED <<reqs, recStatus, statusReply>>
    /\ UNCHANGED <<sysStdout, oldStdout>>
    /\ UNCHANGED notSrvVars

\* run_recommendations_thread, lines 327-331
WriteRecommendationsStatus(r) ==
    /\ reqs[r].kind = "recommendations"
    /\ workers[r].pc = "ran"
    /\ recStatus' = IF workers[r].propagated THEN "Error" ELSE "Completed"
    /\ workers' = [workers EXCEPT ![r].pc = "ended"]
    /\ UNCHANGED <<reqs, analysisStatus, lastAnalysisRun, statusReply>>
    /\ UNCHANGED <<sysStdout, oldStdout>>
    /\ UNCHANGED notSrvVars

\* run_translation_thread: azure_translator(countryCode); an exception is
\* logged with cherrypy.log; no status file is written
RunTranslation(r) ==
    /\ reqs[r].kind = "translation"
    /\ workers[r].pc = "running"
    /\ \E f \in JobFaults("azure_translator") :
          workers' = [workers EXCEPT ![r] =
              [pc |-> "ended", fault |-> f,
               propagated |-> JobPropagates("azure_translator", f)]]
    /\ UNCHANGED <<reqs, analysisStatus, recStatus, lastAnalysisRun, statusReply>>
    /\ UNCHANGED <<sysStdout, oldStdout>>
    /\ UNCHANGED notSrvVars

\* get_analysis_status
GetAnalysisStatus ==
    /\ statusReply' = StatusReply(analysisStatus)
    /\ UNCHANGED <<reqs, workers, analysisStatus, recStatus, lastAnalysisRun>>
    /\ UNCHANGED <<sysStdout, oldStdout>>
    /\ UNCHANGED notSrvVars

\* process_all_speech_to_text, lines 57-58: old_stdout = sys.stdout;
\* sys.stdout = io.StringIO() (the capture object of request r is r; 0 is
\* the stream the server was started with)
ProcessAllSpeechToText(r) ==
    /\ NextRequest(r)
    /\ reqs' = [reqs EXCEPT ![r] = [kind |-> "speech_to_text",
                                    pc |-> "redirected", reply |-> "none"]]
    /\ oldStdout' = [oldStdout EXCEPT ![r] = sysStdout]
    /\ sysStdout' = r
    /\ UNCHANGED <<workers, analysisStatus, recStatus, lastAnalysisRun,
                   statusReply>>
    /\ UNCHANGED notSrvVars

\* process_all_speech_to_text, lines 61-70: transcribe_audio_files() ends
\* without an exception (it catches its own), sys.stdout = old_stdout, the
\* reply
SpeechToTextReturn(r) ==
    /\ reqs[r].kind = "speech_to_text"
    /\ reqs[r].pc = "redirected"
    /\ sysStdout' = oldStdout[r]
    /\ reqs' = [reqs EXCEPT ![r].pc = "replied", ![r].reply = "completed"]
    /\ UNCHANGED <<workers, analysisStatus, recStatus, lastAnalysisRun,
                   statusReply, oldStdout>>
    /\ UNCHANGED notSrvVars

\* record_audio, line 88: sys.stdout = io.StringIO(); the stream in place at
\* entry is kept nowhere by the handler (oldStdout[r] only remembers it)
RecordAudioEndpoint(r) ==
    /\ NextRequest(r)
    /\ reqs' = [reqs EXCEPT ![r] = [kind |-> "record_audio",
                                    pc |-> "redirected", reply |-> "none"]]
    /\ oldStdout' = [oldStdout EXCEPT ![r] = sysStdout]
    /\ sysStdout' = r
    /\ UNCHANGED <<workers, analysisStatus, recStatus, lastAnalysisRun,
                   statusReply>>
    /\ UNCHANGED notSrvVars

\* record_audio, lines 91-108: audio_recorder() returned a path or None; the
\* reply, or the except branch with status 500; sys.stdout is not assigned
RecordAudioEndpointReturn(r) ==
    /\ reqs[r].kind = "record_audio"
    /\ reqs[r].pc = "redirected"
    /\ \E recorded \in BOOLEAN :
          reqs' = [reqs EXCEPT ![r].pc = "replied",
                               ![r].reply = IF recorded THEN "completed"
                                                        ELSE "error"]
    /\ UNCHANGED <<workers, analysisStatus, recStatus, lastAnalysisRun,
                   statusReply, sysStdout, oldStdout>>
    /\ UNCHANGED notSrvVars

\* The server after start-up: no request yet; the status files are whatever
\* an earlier run of the server left in the working directory.
SrvInit ==
    /\ reqs = [r \in RequestIds |-> [kind |-> "none", pc |-> "idle",
                                     reply |-> "none"]]
    /\ workers = [r \in RequestIds |-> [pc |-> "none", fault |-> NoFault,
                                        propagated |-> FALSE]]
    /\ analysisStatus \in {"absent", "Completed", "Error"}
    /\ recStatus \in {"absent", "Completed", "Error"}
    /\ lastAnalysisRun = "none"
    /\ statusReply = "none"
    /\ sysStdout = 0
    /\ oldStdout = [r \in RequestIds |-> 0]

\* No server running (the other specifications).
SrvIdle ==
    /\ reqs = [r \in RequestIds |-> [kind |-> "none", pc |-> "idle",
                                     reply |-> "none"]]
    /\ workers = [r \in RequestIds |-> [pc |-> "none", fault |-> NoFault,
                                        propagated |-> FALSE]]
    /\ analysisStatus = "absent"
    /\ recStatus = "absent"
    /\ lastAnalysisRun = "none"
    /\ statusReply = "none"
    /\ sysStdout = 0
    /\ oldStdout = [r \in RequestIds |-> 0]

-----------------------------------------------------------------------------
(* One call of a batch function: its Config is built from the environment,   *)
(* the inputs are selected, and each input is sent to the cloud service      *)

BatchFunctions == {"transcribe_audio_files", "analyze_text_files",
                   "azure_recommendation", "azure_translator", "text_to_speech"}

\* The environment variables that hold what the module needs to call its
\* cloud API: the key, and the region or endpoint where the SDK takes one.
ApiVars(m) ==
    CASE m = "transcribe_audio_files" -> {"AZURE_AUDIO_TEXT_KEY", "REGION"}
      [] m = "analyze_text_files" ->
            {"AZURE_LANGUAGE_KEY", "AZURE_LANGUAGE_ENDPOINT"}
      [] m = "azure_recommendation" -> {"GPT3_API_KEY"}
      [] m = "azure_translator" ->
            {"AZURE_TRANSLATOR_KEY", "AZURE_TRANSLATOR_ENDPOINT", "REGION"}
      [] m = "text_to_speech" -> {"AZURE_AUDIO_TEXT_KEY", "REGION"}

\* The environment variables whose absence makes the module's Config raise
\* (validate / validate_config). The recommendation Config reads
\* GPT3_API_KEY but never tests it; its other variables have defaults.
CheckedVars(m) ==
    CASE m = "transcribe_audio_files" ->
            {"AZURE_AUDIO_TEXT_KEY", "REGION", "INPUT_FOLDER",
             "TRANSCRIPTS_FOLDER", "TRANSCRIPTS_DB_TABLE_NAME", "AUDIO_EXTENSION"}
      [] m = "analyze_text_files" ->
            {"AZURE_LANGUAGE_ENDPOINT", "AZURE_LANGUAGE_KEY",
             "TRANSCRIPTS_FOLDER", "REPORTS_FOLDER", "ANALYSIS_DB_TABLE_NAME"}
      [] m = "azure_recommendation" -> {}
      [] m = "azure_translator" ->
            {"AZURE_TRANSLATOR_KEY", "AZURE_TRANSLATOR_ENDPOINT", "REGION"}
      [] m = "text_to_speech" ->
            {"AZURE_AUDIO_TEXT_KEY", "REGION", "RECORDS_FOLDER"}

\* The environment variables the module's Config reads without a default.
EnvVars(m) == CheckedVars(m) \cup ApiVars(m)

\* Whether Config also tests that its folders are directories.
ChecksFolders(m) == m \in {"azure_recommendation", "azure_translator"}

\* The file system: folder "in" is the folder the environment names
\* (INPUT_FOLDER, TRANSCRIPTS_FOLDER); folder "out" is some other folder.
Paths == {"in/a.wav", "in/b.wav", "in/c.txt", "out/e.wav", "out/f.txt"}

Folder(path) == IF path \in {"in/a.wav", "in/b.wav", "in/c.txt"} THEN "in" ELSE "out"

Suffix(path) == IF path \in {"in/c.txt", "out/f.txt"} THEN ".txt" ELSE ".wav"

\* os.listdir(folder) filtered with filename.endswith(suffix)
Listing(folder, suffix) ==
    {path \in bFiles : Folder(path) = folder /\ Suffix(path) = suffix}

\* The values of file_path: omitted, the empty string, a file, a folder.
ArgValues(m) ==
    CASE m = "transcribe_audio_files" ->
            {"None", "", "in/a.wav", "in/c.txt", "out/e.wav"}
      [] m = "analyze_text_files" -> {"in", "out", "out/f.txt"}
      [] OTHER -> {"None"}

\* Python's truth value of file_path
Truthy(arg) == arg \notin {"None", ""}

\* config = Config()
BatchConfig ==
    /\ bPc = "call"
    /\ IF CheckedVars(bFn) \cap bUnset # {}
          THEN /\ bExc' = IF bFn = "azure_translator" THEN "ValueError"
                                                     ELSE "EnvironmentError"
               /\ bPc' = "handle"
          ELSE IF ChecksFolders(bFn) /\ ~bFolderOk
                  THEN /\ bExc' = "EnvironmentError"
                       /\ bPc' = "handle"
                  ELSE /\ bPc' = "select"
                       /\ UNCHANGED bExc
    /\ UNCHANGED <<bFn, bUnset, bFolderOk, bArg, bFiles, bTodo, bProcessed,
                   bCloudCalls, bLogged>>
    /\ UNCHANGED notBatchVars

\* Mutant: process_audio_files without the test of the file extension.
SelectedInputsAnyExtension ==
    CASE bFn = "transcribe_audio_files" ->
            IF Truthy(bArg)
               THEN (IF bArg \in bFiles THEN {bArg} ELSE {})
               ELSE {path \in bFiles : Folder(path) = "in"}
      [] bFn = "text_to_speech" -> {"text"}
      [] OTHER -> Listing("in", ".txt")

\* The inputs the call visits. process_audio_files: the given file if
\* file_path is true and exists, nothing if it is true and missing, the
\* audio files of INPUT_FOLDER otherwise. analyze_text_files,
\* generate_recommendations and azure_translator: the .txt files of
\* TRANSCRIPTS_FOLDER, whatever the argument. text_to_speech: its text.
SelectedInputs ==
    CASE bFn = "transcribe_audio_files" ->
            IF Truthy(bArg)
               THEN (IF bArg \in bFiles THEN {bArg} ELSE {})
               ELSE Listing("in", ".wav")
      [] bFn = "text_to_speech" -> {"text"}
      [] OTHER -> Listing("in", ".txt")

\* process_audio_files, lines 106-111, and the for statements of the other
\* functions: the inputs are determined; a given file that does not exist
\* is logged
BatchSelect ==
    /\ bPc = "select"
    /\ bTodo' = SelectedInputs
    /\ bLogged' = IF /\ bFn = "transcribe_audio_files"
                     /\ Truthy(bArg)
                     /\ bArg \notin bFiles
                     THEN bLogged \cup {"file_not_found"}
                     ELSE bLogged
    /\ bPc' = "loop"
    /\ UNCHANGED <<bFn, bUnset, bFolderOk, bArg, bFiles, bExc, bProcessed,
                   bCloudCalls>>
    /\ UNCHANGED notBatchVars

\* One iteration: the input is sent to the cloud service with the
\* credentials of the Config. os.listdir and glob give no order. A call
\* made without a credential is rejected with an exception.
BatchProcess ==
    /\ bPc = "loop"
    /\ \E input \in bTodo :
          /\ bCloudCalls' = bCloudCalls + 1
          /\ IF ApiVars(bFn) \cap bUnset # {}
                THEN /\ bExc' = "AuthenticationError"
                     /\ bPc' = "handle"
                     /\ UNCHANGED <<bTodo, bProcessed>>
                ELSE /\ bProcessed' = Append(bProcessed, input)
                     /\ bTodo' = bTodo \ {input}
                     /\ UNCHANGED <<bPc, bExc>>
    /\ UNCHANGED <<bFn, bUnset, bFolderOk, bArg, bFiles, bLogged>>
    /\ UNCHANGED notBatchVars

\* The exception meets the function's own handler, if it has one
BatchHandle ==
    /\ bPc = "handle"
    /\ bLogged' = IF TopLevel(bFn) = "none" THEN bLogged
                                            ELSE bLogged \cup {"execution_failed"}
    /\ bPc' = IF TopLevel(bFn) = "catch" THEN "done" ELSE "raised"
    /\ bExc' = IF TopLevel(bFn) = "catch" THEN "none" ELSE bExc
    /\ UNCHANGED <<bFn, bUnset, bFolderOk, bArg, bFiles, bTodo, bProcessed,
                   bCloudCalls>>
    /\ UNCHANGED notBatchVars

\* The loop is exhausted and the function returns
BatchReturn ==
    /\ bPc = "loop"
    /\ bTodo = {}
    /\ bPc' = "done"
    /\ UNCHANGED <<bFn, bUnset, bFolderOk, bArg, bFiles, bExc, bTodo,
                   bProcessed, bCloudCalls, bLogged>>
    /\ UNCHANGED notBatchVars

BatchInit ==
    /\ bFn \in BatchFunctions
    /\ bUnset \in SUBSET EnvVars(bFn)
    /\ bFolderOk \in BOOLEAN
    /\ ~ChecksFolders(bFn) => bFolderOk
    /\ bArg \in ArgValues(bFn)
    /\ bFiles \in SUBSET Paths
    /\ bPc = "call"
    /\ bExc = "none"
    /\ bTodo = {}
    /\ bProcessed = <<>>
    /\ bCloudCalls = 0
    /\ bLogged = {}

\* No batch call (the other specifications).
BatchIdle ==
    /\ bFn = "none"
    /\ bUnset = {}
    /\ bFolderOk = TRUE
    /\ bArg = "None"
    /\ bFiles = {}
    /\ bPc = "idle"
    /\ bExc = "none"
    /\ bTodo = {}
    /\ bProcessed = <<>>
    /\ bCloudCalls = 0
    /\ bLogged = {}

-----------------------------------------------------------------------------
(* The command line interface: one run of main() *)

\* The store_true options of the parser
StoreTrueOptions == {"speech_to_text", "text_analysis", "summary",
                     "text_to_speech", "server"}

\* Strings given as positionals
Tokens == {"x.wav", "y.txt"}

MaxPositionals == 3

PositionalLists ==
    UNION {[1..n -> Tokens] : n \in 0..MaxPositionals}

\* The three positionals of the parser: text (nargs "?", default ""),
\* name (nargs "?", default ""), files (nargs "*"), filled in this order
ParseArgs(p) ==
    [text |-> IF Len(p) >= 1 THEN p[1] ELSE "",
     name |-> IF Len(p) >= 2 THEN p[2] ELSE "",
     files |-> IF Len(p) >= 3 THEN SubSeq(p, 3, Len(p)) ELSE <<>>]

\* Argument values of a call: a string, a list of strings, None
StrArg(s) == [kind |-> "str", items |-> <<s>>]
ListArg(l) == [kind |-> "list", items |-> l]
NoneArg == [kind |-> "None", items |-> <<>>]
DictArg == [kind |-> "dict", items |-> <<>>]

\* validate_args: every path of args.files is an existing file
ValidateArgs == \A i \in 1..Len(cArgs.files) : cArgs.files[i] \in cExist

\* Mutant: the translate branch tested before the record branch.
ChosenBranchTranslateFirst ==
    IF "speech_to_text" \in cFlags THEN "process_speech_to_text"
    ELSE IF "text_analysis" \in cFlags THEN "process_text_analysis"
    ELSE IF "text_to_speech" \in cFlags THEN "process_text_to_speech"
    ELSE IF "summary" \in cFlags THEN "azure_recommendation"
    ELSE IF "server" \in cFlags THEN "start_server"
    ELSE IF cTranslate.langs # <<>> THEN "process_translation"
    ELSE IF cRecord \notin {"None", ""} THEN "process_audio_recording"
    ELSE "print_help"

\* main, lines 294-309: the if/elif chain over the truth values of the
\* parsed options (None, "" and [] are false)
ChosenBranch ==
    IF "speech_to_text" \in cFlags THEN "process_speech_to_text"
    ELSE IF "text_analysis" \in cFlags THEN "process_text_analysis"
    ELSE IF "text_to_speech" \in cFlags THEN "process_text_to_speech"
    ELSE IF "summary" \in cFlags THEN "azure_recommendation"
    ELSE IF "server" \in cFlags THEN "start_server"
    ELSE IF cRecord \notin {"None", ""} THEN "process_audio_recording"
    ELSE IF cTranslate.langs # <<>> THEN "process_translation"
    ELSE "print_help"

\* Whether a call of fn ends with an exception: only functions without a
\* catch-all handler of their own can raise into main
CalleeRaises(fn) ==
    cFault /\ (fn = "speech_text_server" \/ TopLevel(fn) # "catch")

\* args = parser.parse_args()
CliParse ==
    /\ cPc = "parse"
    /\ cArgs' = ParseArgs(cPositionals)
    /\ cPc' = "dispatch"
    /\ UNCHANGED <<cFlags, cRecord, cTranslate, cPositionals, cExist, cFault,
                   cInvoked, cCalls, cHelp, cLogged, cOutcome>>
    /\ UNCHANGED notCliVars

\* main, line 309: no branch is taken, parser.print_help()
CliPrintHelp ==
    /\ cPc = "dispatch"
    /\ ChosenBranch = "print_help"
    /\ cHelp' = TRUE
    /\ cOutcome' = "returned"
    /\ cPc' = "done"
    /\ UNCHANGED <<cFlags, cRecord, cTranslate, cPositionals, cExist, cFault,
                   cArgs, cInvoked, cCalls, cLogged>>
    /\ UNCHANGED notCliVars

\* process_speech_to_text
ProcessSpeechToText ==
    /\ cPc = "dispatch"
    /\ ChosenBranch = "process_speech_to_text"
    /\ cInvoked' = Append(cInvoked, "process_speech_to_text")
    /\ IF cArgs.text # "" /\ ValidateArgs
          THEN /\ cCalls' = Append(cCalls, [fn |-> "transcribe_audio_files",
                                            arg |-> StrArg(cArgs.text)])
               /\ UNCHANGED cLogged
          ELSE /\ cLogged' = cLogged \cup {"no_audio_files_specified"}
               /\ UNCHANGED cCalls
    /\ cOutcome' = "returned"
    /\ cPc' = "done"
    /\ UNCHANGED <<cFlags, cRecord, cTranslate, cPositionals, cExist, cFault,
                   cArgs, cHelp>>
    /\ UNCHANGED notCliVars

\* process_text_analysis
CliProcessTextAnalysis ==
    /\ cPc = "dispatch"
    /\ ChosenBranch = "process_text_analysis"
    /\ cInvoked' = Append(cInvoked, "process_text_analysis")
    /\ IF ValidateArgs
          THEN /\ cCalls' = Append(cCalls, [fn |-> "analyze_text_files",
                                            arg |-> ListArg(cArgs.files)])
               /\ UNCHANGED cLogged
          ELSE /\ cLogged' = cLogged \cup {"file_does_not_exist"}
               /\ UNCHANGED cCalls
    /\ cOutcome' = "returned"
    /\ cPc' = "done"
    /\ UNCHANGED <<cFlags, cRecord, cTranslate, cPositionals, cExist, cFault,
                   cArgs, cHelp>>
    /\ UNCHANGED notCliVars

\* process_text_to_speech; text_to_speech logs and re-raises its exceptions
ProcessTextToSpeech ==
    /\ cPc = "dispatch"
    /\ ChosenBranch = "process_text_to_speech"
    /\ cInvoked' = Append(cInvoked, "process_text_to_speech")
    /\ IF ~ValidateArgs
          THEN /\ cLogged' = cLogged \cup {"file_does_not_exist"}
               /\ UNCHANGED cCalls
               /\ cPc' = "done"
               /\ cOutcome' = "returned"
          ELSE IF cArgs.text # "" /\ cArgs.name # ""
                  THEN /\ cCalls' = Append(cCalls,
                              [fn |-> "text_to_speech",
                               arg |-> ListArg(<<cArgs.text, cArgs.name>>)])
                       /\ UNCHANGED cLogged
                       /\ cPc' = IF CalleeRaises("text_to_speech")
                                    THEN "except" ELSE "done"
                       /\ cOutcome' = IF CalleeRaises("text_to_speech")
                                         THEN "running" ELSE "returned"
                  ELSE /\ cLogged' = cLogged \cup {"text_and_name_required"}
                       /\ UNCHANGED cCalls
                       /\ cPc' = "done"
                       /\ cOutcome' = "returned"
    /\ UNCHANGED <<cFlags, cRecord, cTranslate, cPositionals, cExist, cFault,
                   cArgs, cHelp>>
    /\ UNCHANGED notCliVars

\* main, line 301: azure_recommendation() is called directly
CliSummary ==
    /\ cPc = "dispatch"
    /\ ChosenBranch = "azure_recommendation"
    /\ cInvoked' = Append(cInvoked, "azure_recommendation")
    /\ cCalls' = Append(cCalls, [fn |-> "azure_recommendation", arg |-> NoneArg])
    /\ cOutcome' = "returned"
    /\ cPc' = "done"
    /\ UNCHANGED <<cFlags, cRecord, cTranslate, cPositionals, cExist, cFault,
                   cArgs, cHelp, cLogged>>
    /\ UNCHANGED notCliVars

\* start_server: speech_text_server() has no handler of its own
StartServer ==
    /\ cPc = "dispatch"
    /\ ChosenBranch = "start_server"
    /\ cInvoked' = Append(cInvoked, "start_server")
    /\ cCalls' = Append(cCalls, [fn |-> "speech_text_server", arg |-> NoneArg])
    /\ cPc' = IF CalleeRaises("speech_text_server") THEN "except" ELSE "done"
    /\ cOutcome' = IF CalleeRaises("speech_text_server") THEN "running"
                                                         ELSE "returned"
    /\ UNCHANGED <<cFlags, cRecord, cTranslate, cPositionals, cExist, cFault,
                   cArgs, cHelp, cLogged>>
    /\ UNCHANGED notCliVars

\* process_audio_recording: load_audio_settings returns the settings of the
\* file, or None (with an error logged) when the file cannot be read
ProcessAudioRecording ==
    /\ cPc = "dispatch"
    /\ ChosenBranch = "process_audio_recording"
    /\ cInvoked' = Append(cInvoked, "process_audio_recording")
    /\ cCalls' = Append(cCalls,
            [fn |-> "audio_recorder",
             arg |-> IF cRecord # "default" /\ cRecord \in cExist
                        THEN DictArg ELSE NoneArg])
    /\ cLogged' = IF cRecord # "default" /\ cRecord \notin cExist
                     THEN cLogged \cup {"error_loading_audio_settings"}
                     ELSE cLogged
    /\ cOutcome' = "returned"
    /\ cPc' = "done"
    /\ UNCHANGED <<cFlags, cRecord, cTranslate, cPositionals, cExist, cFault,
                   cArgs, cHelp>>
    /\ UNCHANGED notCliVars

\* process_translation; azure_translator has no handler of its own
ProcessTranslation ==
    /\ cPc = "dispatch"
    /\ ChosenBranch = "process_translation"
    /\ cInvoked' = Append(cInvoked, "process_translation")
    /\ IF ValidateArgs
          THEN /\ cCalls' = Append(cCalls, [fn |-> "azure_translator",
                                            arg |-> ListArg(cTranslate.langs)])
               /\ UNCHANGED cLogged
               /\ cPc' = IF CalleeRaises("azure_translator") THEN "except"
                                                             ELSE "done"
               /\ cOutcome' = IF CalleeRaises("azure_translator")
                                 THEN "running" ELSE "returned"
          ELSE /\ cLogged' = cLogged \cup {"file_does_not_exist"}
               /\ UNCHANGED cCalls
               /\ cPc' = "done"
               /\ cOutcome' = "returned"
    /\ UNCHANGED <<cFlags, cRecord, cTranslate, cPositionals, cExist, cFault,
                   cArgs, cHelp>>
    /\ UNCHANGED notCliVars

\* main, lines 310-311: except Exception as e: logger.error(...)
CliExcept ==
    /\ cPc = "except"
    /\ cLogged' = cLogged \cup {"an_error_occurred"}
    /\ cOutcome' = "returned"
    /\ cPc' = "done"
    /\ UNCHANGED <<cFlags, cRecord, cTranslate, cPositionals, cExist, cFault,
                   cArgs, cInvoked, cCalls, cHelp>>
    /\ UNCHANGED notCliVars

CliInit ==
    /\ cFlags \in SUBSET StoreTrueOptions
    /\ cRecord \in {"None", "default", "", "settings.json"}
    /\ cTranslate \in {[given |-> FALSE, langs |-> <<>>],
                       [given |-> TRUE, langs |-> <<>>],
                       [given |-> TRUE, langs |-> <<"fr">>]}
    /\ cPositionals \in PositionalLists
    /\ cExist \in SUBSET {"x.wav", "settings.json"}
    /\ cFault \in BOOLEAN
    /\ cPc = "parse"
    /\ cArgs = ParseArgs(<<>>)
    /\ cInvoked = <<>>
    /\ cCalls = <<>>
    /\ cHelp = FALSE
    /\ cLogged = {}
    /\ cOutcome = "running"

\* main is not running (the other specifications).
CliIdle ==
    /\ cFlags = {}
    /\ cRecord = "None"
    /\ cTranslate = [given |-> FALSE, langs |-> <<>>]
    /\ cPositionals = <<>>
    /\ cExist = {}
    /\ cFault = FALSE
    /\ cPc = "idle"
    /\ cArgs = ParseArgs(<<>>)
    /\ cInvoked = <<>>
    /\ cCalls = <<>>
    /\ cHelp = FALSE
    /\ cLogged = {}
    /\ cOutcome = "running"

-----------------------------------------------------------------------------
(* One call of SpeechToText.process_file: the recognition session whose     *)
(* events the SDK delivers to the callbacks, and the three outputs          *)

\* Texts carried by recognized events
Texts == {"hello", "world"}

\* Bound on the recognized events of one session
MaxEvents == 3

OutputFiles == <<"txt", "json", "sqlite">>

\* speech_recognizer.start_continuous_recognition()
StartContinuousRecognition ==
    /\ tPc = "start"
    /\ tSession' = "running"
    /\ tPc' = "wait"
    /\ UNCHANGED <<tDelivered, allResults, done, results, tReturned, tWrites,
                   tOut, tOut0, tLogged>>
    /\ UNCHANGED notTrVars

\* handle_final_result, called by the SDK for each recognized event until
\* the session has stopped: all_results.append(evt.result.text). The list
\* returned by speech_to_text_long is this same list object.
HandleFinalResult ==
    /\ tSession \in {"running", "canceled"}
    /\ Len(tDelivered) < MaxEvents
    /\ \E text \in Texts :
          /\ tDelivered' = Append(tDelivered, text)
          /\ allResults' = Append(allResults, text)
          /\ results' = IF tReturned THEN Append(allResults, text) ELSE results
    /\ UNCHANGED <<tSession, done, tPc, tReturned, tWrites, tOut, tOut0,
                   tLogged>>
    /\ UNCHANGED notTrVars

\* handle_recognition_error, called for the canceled event (end of stream or
\* error): a log record, done.set()
HandleRecognitionError ==
    /\ tSession = "running"
    /\ tSession' = "canceled"
    /\ \E reason \in {"end_of_stream", "error"} :
          tLogged' = tLogged \cup {IF reason = "error"
                                      THEN "recognition_canceled_error"
                                      ELSE "recognition_completed"}
    /\ done' = TRUE
    /\ UNCHANGED <<tDelivered, allResults, tPc, results, tReturned, tWrites,
                   tOut, tOut0>>
    /\ UNCHANGED notTrVars

\* The session_stopped callback: lambda evt: done.set()
SessionStopped ==
    /\ tSession \in {"running", "canceled"}
    /\ tSession' = "stopped"
    /\ done' = TRUE
    /\ UNCHANGED <<tDelivered, allResults, tPc, results, tReturned, tWrites,
                   tOut, tOut0, tLogged>>
    /\ UNCHANGED notTrVars

\* Mutant: the wait is left without the event being set.
DoneWaitWithTimeout ==
    /\ tPc = "wait"
    /\ tLogged' = IF allResults = <<>> THEN tLogged \cup {"no_results"}
                                       ELSE tLogged
    /\ results' = allResults
    /\ tReturned' = TRUE
    /\ tPc' = "returned"
    /\ UNCHANGED <<tSession, tDelivered, allResults, done, tWrites, tOut,
                   tOut0>>
    /\ UNCHANGED notTrVars

\* speech_to_text_long, lines 217-229: done.wait() returns once the event is
\* set; the warning when the list is empty; return all_results
DoneWait ==
    /\ tPc = "wait"
    /\ done
    /\ tLogged' = IF allResults = <<>> THEN tLogged \cup {"no_results"}
                                       ELSE tLogged
    /\ results' = allResults
    /\ tReturned' = TRUE
    /\ tPc' = "returned"
    /\ UNCHANGED <<tSession, tDelivered, allResults, done, tWrites, tOut,
                   tOut0>>
    /\ UNCHANGED notTrVars

\* process_file, line 146: if results:
IfResults ==
    /\ tPc = "returned"
    /\ tPc' = IF results # <<>> THEN "write_txt" ELSE "end"
    /\ UNCHANGED <<tSession, tDelivered, allResults, done, results, tReturned,
                   tWrites, tOut, tOut0, tLogged>>
    /\ UNCHANGED notTrVars

\* One of the three writers ran: the output is replaced, or the writer
\* raised (none of them has a handler) and process_file is left
Written(i, ok) ==
    /\ tWrites' = IF ok THEN Append(tWrites, OutputFiles[i]) ELSE tWrites
    /\ tOut' = IF ok THEN [tOut EXCEPT ![i] = "new"] ELSE tOut
    /\ UNCHANGED <<tSession, tDelivered, allResults, done, results, tReturned,
                   tOut0, tLogged>>
    /\ UNCHANGED notTrVars

\* self.write_to_file(output_path, results)
WriteToFile ==
    /\ tPc = "write_txt"
    /\ \E ok \in BOOLEAN :
          /\ Written(1, ok)
          /\ tPc' = IF ok THEN "write_json" ELSE "raised"

\* self.write_to_json(json_path, results)
WriteToJson ==
    /\ tPc = "write_json"
    /\ \E ok \in BOOLEAN :
          /\ Written(2, ok)
          /\ tPc' = IF ok THEN "write_sqlite" ELSE "raised"

\* self.write_to_sqlite(db_filename, name, results)
WriteToSqlite ==
    /\ tPc = "write_sqlite"
    /\ \E ok \in BOOLEAN :
          /\ Written(3, ok)
          /\ tPc' = IF ok THEN "end" ELSE "raised"

\* process_file is entered; the outputs of an earlier run of the same file
\* may be there
TrInit ==
    /\ tSession = "idle"
    /\ tDelivered = <<>>
    /\ allResults = <<>>
    /\ done = FALSE
    /\ tPc = "start"
    /\ results = <<>>
    /\ tReturned = FALSE
    /\ tWrites = <<>>
    /\ tOut \in [1..3 -> {"absent", "old"}]
    /\ tOut0 = tOut
    /\ tLogged = {}

\* No transcription running (the other specifications).
TrIdle ==
    /\ tSession = "idle"
    /\ tDelivered = <<>>
    /\ allResults = <<>>
    /\ done = FALSE
    /\ tPc = "idle"
    /\ results = <<>>
    /\ tReturned = FALSE
    /\ tWrites = <<>>
    /\ tOut = [i \in 1..3 |-> "absent"]
    /\ tOut0 = [i \in 1..3 |-> "absent"]
    /\ tLogged = {}

-----------------------------------------------------------------------------
(* The recorder's specification: one call of audio_recorder(settings) *)

RecInit ==
    /\ settings \in AudioSettings
    /\ folderExists \in BOOLEAN
    /\ mainThread \in BOOLEAN
    /\ pc = "start"
    /\ exc = "none"
    /\ result = "unset"
    /\ audio = "none"
    /\ is_recording = FALSE
    /\ output_file_path = "unset"
    /\ sigint = "previous"
    /\ sigterm = "previous"
    /\ stream = "none"
    /\ total_chunks = <<>>
    /\ wav = "absent"
    /\ iter = 0
    /\ reads = 0
    /\ framesRead = 0
    /\ writes = 0
    /\ framesWritten = 0
    /\ logged = {}
    /\ signals = 0
    /\ sigAt = "none"
    /\ readsAtSig = 0
    /\ data = 0
    /\ wavChunks = <<>>
    /\ caller \in {"cli", "endpoint"}
    \* CherryPy runs a request handler on a thread of its pool
    /\ caller = "endpoint" => ~mainThread
    /\ reply = "none"

RecorderStep ==
    \/ ConfigInit
    \/ AudioRecorderInit
    \/ InstallSigint
    \/ InstallSigterm
    \/ WarnNotMainThread
    \/ SetRecording
    \/ OpenStream
    \/ OpenStreamFails
    \/ ComputeTotalChunks
    \/ WaveOpen
    \/ LoopCheck
    \/ StreamRead
    \/ StreamReadRaises
    \/ WriteFrames
    \/ WriteFramesRaises
    \/ WaveClose
    \/ LogRecordingError
    \/ StopStream
    \/ CloseStream
    \/ Terminate
    \/ ValidateOutputFile
    \/ AudioRecorderReturn
    \/ AudioRecorderExcept
    \/ RecordAudioReply

Signal == \E sig \in {"SIGINT", "SIGTERM"} : SignalHandler(sig)

\* No call of audio_recorder (the other specifications).
RecIdle ==
    /\ settings = [format |-> paInt16, channels |-> MinChannels, rate |-> MaxRate,
                   chunk |-> 12000, record_seconds |-> 0]
    /\ folderExists = TRUE
    /\ mainThread = TRUE
    /\ pc = "idle"
    /\ exc = "none"
    /\ result = "unset"
    /\ audio = "none"
    /\ is_recording = FALSE
    /\ output_file_path = "unset"
    /\ sigint = "previous"
    /\ sigterm = "previous"
    /\ stream = "none"
    /\ total_chunks = <<>>
    /\ wav = "absent"
    /\ iter = 0
    /\ reads = 0
    /\ framesRead = 0
    /\ writes = 0
    /\ framesWritten = 0
    /\ logged = {}
    /\ signals = 0
    /\ sigAt = "none"
    /\ readsAtSig = 0
    /\ data = 0
    /\ wavChunks = <<>>
    /\ caller = "cli"
    /\ reply = "none"

Init == RecInit /\ EpIdle /\ SrvIdle /\ BatchIdle /\ CliIdle /\ TrIdle

Next == RecorderStep \/ Signal

Spec == Init /\ [][Next]_vars

\* record_audio has returned to audio_recorder
RecordAudioReturned == pc \in {"ra_ret", "returned", "replied"} /\ audio # "none"

\* C23 (as claimed): on every path on which record_audio returns, the
\* PyAudio instance has been terminated, and a stream that was opened has
\* been stopped and closed.
C23_PyAudioReleasedOnReturn ==
    RecordAudioReturned =>
        (audio = "terminated" /\ stream \in {"none", "closed"})

\* C24 (as claimed): after record_audio has returned, the SIGINT and SIGTERM
\* handlers are the ones installed before the call.
C24_SignalDispositionsRestored ==
    RecordAudioReturned => (sigint = "previous" /\ sigterm = "previous")

\* C25: Config checks the output folder before the audio settings: once
\* Config's construction has ended the folder exists, also when it ended
\* with ValueError for invalid settings.
C25_FolderCreatedBeforeSettingsChecked ==
    /\ pc # "start" => folderExists
    /\ (pc = "ar_except" /\ exc = "ValueError") =>
          (folderExists /\ ~ValidAudioSettings(settings))

C25_Witness ==
    /\ pc = "ar_except"
    /\ exc = "ValueError"
    /\ "created_dir" \in logged
    /\ folderExists

\* C26 (as claimed): for every AudioSettings accepted by Config the chunk
\* count is computed without a division by zero and is not negative.
C26_ChunkCountDefinedAndNonNegative ==
    /\ exc # "ZeroDivisionError"
    /\ total_chunks # <<>> => total_chunks[1] >= 0

-----------------------------------------------------------------------------
(* Properties of the recorder *)

\* The allowed sets as the specification states them: format one of
\* paInt16/paInt24/paInt32, channels in 1..2, rate in 8000..48000.
InAllowedSets(s) ==
    /\ s.format = paInt16 \/ s.format = paInt24 \/ s.format = paInt32
    /\ s.channels \in MinChannels..MaxChannels
    /\ s.rate \in MinRate..MaxRate

\* record_audio has been entered and is past its signal set-up
PastSignalSetup == audio # "none" /\ pc \notin {"ra_entry", "ra_sigterm"}

C2_InvalidSettingsTouchNothing ==
    ~InAllowedSets(settings) =>
        /\ audio = "none"
        /\ stream = "none"
        /\ sigint = "previous" /\ sigterm = "previous"
        /\ signals = 0
        /\ pc \in {"start", "ar_except", "returned", "replied"}
        /\ (pc \in {"returned", "replied"} => result = "None")

C2_Witness ==
    /\ ~InAllowedSets(settings)
    /\ mainThread
    /\ pc = "returned"
    /\ result = "None"
    /\ audio = "none"

\* C3 (as claimed): on every path on which record_audio returns, a WAV file
\* exists at output_file_path and has been closed.
C3_WavClosedWheneverRecordAudioReturns ==
    pc = "ra_ret" => (output_file_path = "path" /\ wav = "closed")

\* Signals handled in these positions arrive after both handlers are
\* installed and before the read loop has finished.
SignalWindow == {"ra_set", "ra_open", "ra_total", "ra_wave", "loop", "read", "write"}

\* C4 (as claimed): a signal handled after the handlers are installed and
\* before the loop has finished stops the recording early: at most one more
\* chunk is read after it and, when chunks were still due, the loop ends
\* with fewer than total_chunks chunks written.
C4_SignalStopsRecordingEarly ==
    sigAt \in SignalWindow =>
        /\ reads <= readsAtSig + 1
        /\ (pc = "wave_close" /\ readsAtSig + 1 < total_chunks[1])
              => writes < total_chunks[1]

\* C5: the handlers are installed iff record_audio runs on the main thread;
\* on another thread no handler is installed, the warning is logged, the
\* recording proceeds, and only completion or an exception ends its loop.
C5_HandlersIffMainThread ==
    /\ (sigint = "recorder" \/ sigterm = "recorder") => mainThread
    /\ PastSignalSetup =>
          IF mainThread
             THEN /\ sigint = "recorder" /\ sigterm = "recorder"
                  /\ "warn_not_main_thread" \notin logged
             ELSE /\ sigint = "previous" /\ sigterm = "previous"
                  /\ "warn_not_main_thread" \in logged
                  /\ signals = 0
                  /\ (pc \in {"ra_open", "ra_total", "ra_wave", "loop", "read",
                              "write"} => is_recording = TRUE)
                  /\ (pc = "wave_close" =>
                        /\ iter >= total_chunks[1]
                        /\ reads = iter /\ writes = iter)

C5_Witness ==
    /\ ~mainThread
    /\ pc = "wave_close"
    /\ "warn_not_main_thread" \in logged
    /\ total_chunks[1] >= 2
    /\ writes = total_chunks[1]

\* C6 (as claimed): the loop performs at most total_chunks reads, and exactly
\* total_chunks reads when no signal and no exception occurs.
C6_AtMostTotalChunksReads ==
    total_chunks # <<>> =>
        /\ reads <= total_chunks[1]
        /\ (pc = "finally" /\ signals = 0
              /\ "exc_recording_or_writing" \notin logged) => reads = total_chunks[1]

\* C7 (as claimed): is_recording is False before record_audio is called,
\* and False again in every state reached after record_audio has returned.
C7_NotRecordingOutsideRecordAudio ==
    /\ pc = "ra_entry" => is_recording = FALSE
    /\ (pc \in {"ra_ret", "returned"} /\ audio # "none") => is_recording = FALSE

\* C15: validate_output_file runs after the stream and the WAV file are
\* closed; it logs a warning exactly when the file exists and is smaller than
\* 100 bytes and an error exactly when the file does not exist; it leaves
\* output_file_path alone, raises nothing, and audio_recorder still returns
\* the path.
C15_OutputFileCheckIsAdvisory ==
    /\ [](pc = "validate" => (stream = "closed" /\ wav # "open"))
    /\ [][(pc = "validate" /\ pc' # "validate") =>
            /\ pc' = "ra_ret"
            /\ exc' = "none"
            /\ output_file_path' = output_file_path
            /\ ("warn_file_small" \in logged') <=>
                   (wav = "closed" /\ FileSize < MinFileSize)
            /\ ("error_file_missing" \in logged') <=> (wav = "absent")]_vars
    /\ []((/\ pc \in {"returned", "replied"}
           /\ {"warn_file_small", "error_file_missing"} \cap logged # {})
              => result = "path")

C15_Witness ==
    /\ pc = "returned"
    /\ "warn_file_small" \in logged
    /\ result = "path"
    /\ output_file_path = "path"

\* The recording succeeded: a WAV file was written and closed, and neither
\* opening the stream nor reading or writing failed.
RecordingSucceeded ==
    /\ wav = "closed"
    /\ "exc_failed_to_open_stream" \notin logged
    /\ "exc_recording_or_writing" \notin logged

\* C16 (as claimed): the record_audio endpoint answers 'Recording completed'
\* only when a recording file was written, and answers with status 500
\* whenever the recording failed.
C16_CompletedOnlyWhenRecordingSucceeded ==
    pc = "replied" => (reply = "completed" <=> RecordingSucceeded)

\* C19: in every state of the recording loop the chunks in the WAV file are
\* chunks 1..writes in order, each once, and writes equals reads or is one
\* less (exactly between a read and its write); a chunk is read only when
\* every chunk read before it has been written.
C19_FramesWrittenIncrementallyInOrder ==
    /\ [](pc \in {"loop", "read", "write"} =>
            /\ Len(wavChunks) = writes
            /\ \A i \in 1..Len(wavChunks) : wavChunks[i] = i
            /\ writes = IF pc = "write" THEN reads - 1 ELSE reads
            /\ data = reads)
    /\ [][data' # data => (data' = data + 1 /\ Len(wavChunks) = data)]_vars

C19_Witness ==
    /\ pc = "write"
    /\ reads = 2
    /\ writes = 1
    /\ wavChunks = <<1>>

-----------------------------------------------------------------------------
(* The entry points' specification: one call of one entry point *)

EntryInit == EpInit /\ RecIdle /\ SrvIdle /\ BatchIdle /\ CliIdle /\ TrIdle

EntryNext ==
    \/ EpCall
    \/ EpConfig
    \/ EpOp
    \/ EpCatch
    \/ EpReraise
    \/ EpPropagate
    \/ EpReturn

EntrySpec == EntryInit /\ [][EntryNext]_vars

EpEnded == epPc \in {"returned", "raised"}

TranslatorHandlesLocally ==
    /\ epFault.kind = "expected"
    /\ epFault.site \in {"read_text", "request", "write_txt"}

BatchEntryPoints == {"transcribe_audio_files", "analyze_text_files",
                     "azure_recommendation"}

\* Position of an operation in the operations of one input
OpIndex(e, site) == CHOOSE i \in 1..Len(FileOps(e)) : FileOps(e)[i] = site

-----------------------------------------------------------------------------
(* The batch call's specification *)

BatchSpecInit == BatchInit /\ RecIdle /\ EpIdle /\ SrvIdle /\ CliIdle /\ TrIdle

BatchNext ==
    \/ BatchConfig
    \/ BatchSelect
    \/ BatchProcess
    \/ BatchHandle
    \/ BatchReturn

BatchSpec == BatchSpecInit /\ [][BatchNext]_vars

\* Config() returned: the call is past its first statement without an
\* exception from it
ConfigBuilt ==
    \/ bPc \in {"select", "loop"}
    \/ bCloudCalls > 0
    \/ (bPc = "done" /\ "execution_failed" \notin bLogged)

\* C14 (as claimed): for every module, Config construction succeeds only if
\* every variable the module needs to call its cloud API is set, and when
\* construction raises no cloud call is made.
C14_ConfigRequiresApiFields ==
    /\ ConfigBuilt => ApiVars(bFn) \cap bUnset = {}
    /\ (bFn # "none" /\ ~ConfigBuilt) => bCloudCalls = 0

\* The audio files of INPUT_FOLDER
AudioFilesOfInputFolder ==
    {path \in bFiles : Folder(path) = "in" /\ Suffix(path) = ".wav"}

\* The elements of a sequence
Range(seq) == {seq[i] : i \in 1..Len(seq)}

Designated(arg) ==
    {path \in bFiles : Suffix(path) = ".txt" /\ (path = arg \/ Folder(path) = arg)}

\* C18 (as claimed): the files analyze_text_files processes are the ones its
\* file_path argument designates.
C18_AnalysisProcessesDesignatedFiles ==
    (bFn = "analyze_text_files" /\ bPc = "done" /\ ConfigBuilt) =>
        Range(bProcessed) = Designated(bArg)

-----------------------------------------------------------------------------
(* The command line interface's specification *)

CliSpecInit == CliInit /\ RecIdle /\ EpIdle /\ SrvIdle /\ BatchIdle /\ TrIdle

CliNext ==
    \/ CliParse
    \/ CliPrintHelp
    \/ ProcessSpeechToText
    \/ CliProcessTextAnalysis
    \/ ProcessTextToSpeech
    \/ CliSummary
    \/ StartServer
    \/ ProcessAudioRecording
    \/ ProcessTranslation
    \/ CliExcept

CliSpec == CliSpecInit /\ [][CliNext]_vars

\* The fixed precedence of the actions, and the handler of each
Precedence == <<"speech_to_text", "text_analysis", "text_to_speech", "summary",
                "server", "record", "translate">>

HandlerOf(action) ==
    CASE action = "speech_to_text" -> "process_speech_to_text"
      [] action = "text_analysis" -> "process_text_analysis"
      [] action = "text_to_speech" -> "process_text_to_speech"
      [] action = "summary" -> "azure_recommendation"
      [] action = "server" -> "start_server"
      [] action = "record" -> "process_audio_recording"
      [] action = "translate" -> "process_translation"

\* What main must have done when it ends, given which actions count as set:
\* the handler of the first set action in the precedence was invoked, and
\* only it; when none is set help was printed and no handler invoked; an
\* exception of the handler was logged; main returned.
MainDid(setActions) ==
    /\ cOutcome = "returned"
    /\ (cCalls # <<>> /\ CalleeRaises(cCalls[Len(cCalls)].fn))
          => "an_error_occurred" \in cLogged
    /\ IF setActions = {}
          THEN cHelp /\ cInvoked = <<>>
          ELSE LET first == CHOOSE i \in 1..Len(Precedence) :
                                /\ Precedence[i] \in setActions
                                /\ \A j \in 1..(i - 1) :
                                       Precedence[j] \notin setActions
               IN  ~cHelp /\ cInvoked = <<HandlerOf(Precedence[first])>>

\* The action options given on the command line, -t counting only with at
\* least one language
ActionsGiven ==
    cFlags
    \cup (IF cRecord # "None" THEN {"record"} ELSE {})
    \cup (IF cTranslate.langs # <<>> THEN {"translate"} ELSE {})

\* The same, --record counting only with a non-empty value
ActionsNonEmpty ==
    cFlags
    \cup (IF cRecord \notin {"None", ""} THEN {"record"} ELSE {})
    \cup (IF cTranslate.langs # <<>> THEN {"translate"} ELSE {})

\* C11 (as claimed): main invokes at most one handler, chosen by the
\* precedence among the action flags given; with no action flag (or only -t
\* without languages) it prints help and invokes none; an exception of the
\* handler is logged and does not leave main.
C11_OneHandlerByPrecedenceOfFlagsGiven ==
    /\ Len(cInvoked) <= 1
    /\ cOutcome # "raised"
    /\ cPc = "done" => MainDid(ActionsGiven)

\* C11 (amended): the same, where --record with an empty value counts as
\* not set, like -t without languages.
C11_OneHandlerByPrecedenceOfNonEmptyFlags ==
    /\ Len(cInvoked) <= 1
    /\ cOutcome # "raised"
    /\ cPc = "done" => MainDid(ActionsNonEmpty)

C11_Witness ==
    /\ cPc = "done"
    /\ cFlags = {"server"}
    /\ cRecord = "default"
    /\ cTranslate.langs = <<"fr">>
    /\ cFault
    /\ cInvoked = <<"start_server">>
    /\ "an_error_occurred" \in cLogged
    /\ cOutcome = "returned"

\* A file name without its extension
Stem(name) == IF name = "x.wav" THEN "x" ELSE "y"

\* C12 (as claimed): --speech_to_text followed by one audio file name calls
\* the speech-to-text function with that name without its extension.
C12_SpeechToTextCalledWithStem ==
    (/\ cPc = "done"
     /\ "speech_to_text" \in cFlags
     /\ Len(cPositionals) = 1) =>
        cCalls = <<[fn |-> "transcribe_audio_files",
                    arg |-> StrArg(Stem(cPositionals[1]))]>>

\* C13 (as claimed): -ta followed by one text file path calls
\* analyze_text_files with that path as its argument.
C13_TextAnalysisCalledWithGivenPath ==
    (/\ cPc = "done"
     /\ "text_analysis" \in cFlags
     /\ "speech_to_text" \notin cFlags
     /\ Len(cPositionals) = 1) =>
        cCalls = <<[fn |-> "analyze_text_files",
                    arg |-> StrArg(cPositionals[1])]>>

-----------------------------------------------------------------------------
(* The transcription's specification *)

TranscribeInit ==
    TrInit /\ RecIdle /\ EpIdle /\ SrvIdle /\ BatchIdle /\ CliIdle

TranscribeNext ==
    \/ StartContinuousRecognition
    \/ HandleFinalResult
    \/ HandleRecognitionError
    \/ SessionStopped
    \/ DoneWait
    \/ IfResults
    \/ WriteToFile
    \/ WriteToJson
    \/ WriteToSqlite

TranscribeSpec == TranscribeInit /\ [][TranscribeNext]_vars

IsPrefix(s, u) == Len(s) <= Len(u) /\ s = SubSeq(u, 1, Len(s))

\* C22: speech_to_text_long returns only after a canceled or session_stopped
\* event was delivered; the list it returns holds the recognized texts in
\* the order of delivery; process_file writes text file, JSON file, SQLite
\* rows in this order, and when the list is empty it writes none of them and
\* leaves the outputs of an earlier run as they were.
C22_ReturnAfterStopOrderedResultsOrderedOutputs ==
    /\ tReturned => tSession \in {"canceled", "stopped"}
    /\ allResults = tDelivered
    /\ tReturned => results = tDelivered
    /\ IsPrefix(tWrites, OutputFiles)
    /\ tWrites = <<>> => tOut = tOut0
    /\ (tPc \in {"end", "raised"} /\ results = <<>>) =>
          (tWrites = <<>> /\ tOut = tOut0)

C22_Witness ==
    /\ tPc = "end"
    /\ tSession = "stopped"
    /\ tDelivered = <<"world", "hello">>
    /\ results = <<"world", "hello">>
    /\ tWrites = OutputFiles
    /\ tOut0 = [i \in 1..3 |-> "old"]

-----------------------------------------------------------------------------
(* The web server's specification *)

ServerInit == SrvInit /\ RecIdle /\ EpIdle /\ BatchIdle /\ CliIdle /\ TrIdle

ServerNext ==
    \/ \E r \in RequestIds : ProcessTextAnalysis(r)
    \/ \E r \in RequestIds : GenerateRecommendations(r)
    \/ \E r \in RequestIds : ProcessAllTranslations(r)
    \/ \E r \in RequestIds : ReturnStarted(r)
    \/ \E r \in RequestIds, kind \in JobKinds : HandlerFails(r, kind)
    \/ \E r \in RequestIds : RunAnalysis(r)
    \/ \E r \in RequestIds : RunRecommendations(r)
    \/ \E r \in RequestIds : WriteAnalysisStatus(r)
    \/ \E r \in RequestIds : WriteRecommendationsStatus(r)
    \/ \E r \in RequestIds : RunTranslation(r)
    \/ GetAnalysisStatus
    \/ \E r \in RequestIds : ProcessAllSpeechToText(r)
    \/ \E r \in RequestIds : SpeechToTextReturn(r)
    \/ \E r \in RequestIds : RecordAudioEndpoint(r)
    \/ \E r \in RequestIds : RecordAudioEndpointReturn(r)

ServerSpec == ServerInit /\ [][ServerNext]_vars

\* C8 (as claimed): once a text-analysis worker has ended, get_analysis_status
\* returns 'Completed' if the run that ended last succeeded and a status
\* beginning with 'Error:' if it failed.
C8_StatusReflectsLastFinishedRun ==
    lastAnalysisRun # "none" =>
        StatusReply(analysisStatus) =
            IF lastAnalysisRun = "failed" THEN "Error" ELSE "Completed"

\* C9: a handler that has started its worker can return its 'started'
\* response whatever the worker's progress, and returning it neither runs
\* the job nor writes a status file.
C9_HandlersReturnWithoutWaiting ==
    /\ [](\A r \in RequestIds :
            reqs[r].pc = "started" =>
                (workers[r].pc # "none" /\ ENABLED ReturnStarted(r)))
    /\ [][\A r \in RequestIds :
            (reqs[r].reply # "started" /\ reqs'[r].reply = "started") =>
                UNCHANGED <<workers, analysisStatus, recStatus>>]_vars

C9_Witness ==
    \E r \in RequestIds :
        /\ reqs[r].kind = "analysis"
        /\ reqs[r].reply = "started"
        /\ workers[r].pc = "running"
        /\ analysisStatus = "absent"

\* C20 (as claimed): a handler that redirects sys.stdout
\* (process_all_speech_to_text, record_audio) has put back the stream that
\* was in place when it was entered by the time it returns, on its success
\* path and on its exception path.
C20_RedirectingHandlersRestoreStdout ==
    [][\A r \in RequestIds :
          (/\ reqs[r].pc = "redirected"
           /\ reqs'[r].pc = "replied") => sysStdout' = oldStdout[r]]_vars

\* C21 (as claimed): run_recommendations_thread writes 'Completed' whenever
\* azure_recommendation ran to its end without raising, and a status
\* beginning with 'Error:' only when the recommendation run itself failed.
C21_RecommendationsStatusReflectsRun ==
    [][\A r \in RequestIds :
          (/\ reqs[r].kind = "recommendations"
           /\ workers[r].pc = "ran"
           /\ workers'[r].pc = "ended") =>
              /\ ~JobPropagates("azure_recommendation", workers[r].fault)
                    => recStatus' = "Completed"
              /\ recStatus' = "Error" => workers[r].fault # NoFault]_vars

\* C27: background runs are not serialised: a process_text_analysis request
\* starts its worker whatever the other workers are doing, and each worker
\* that ends overwrites the status file with its own result, so the file
\* holds the result of the worker that ended last.
C27_AnalysisRunsNotSerialised ==
    /\ [](\A r \in RequestIds :
            NextRequest(r) => ENABLED ProcessTextAnalysis(r))
    /\ [][\A r \in RequestIds :
            (/\ reqs[r].kind = "analysis"
             /\ workers[r].pc = "ran"
             /\ workers'[r].pc = "ended") =>
                /\ analysisStatus' = IF workers[r].propagated THEN "Error"
                                                              ELSE "Completed"
                /\ lastAnalysisRun' = IF workers[r].fault = NoFault
                                         THEN "succeeded" ELSE "failed"]_vars

\* Two analysis workers were live together, and the one started first ended
\* last.
C27_Witness ==
    /\ reqs[1].kind = "analysis" /\ reqs[2].kind = "analysis"
    /\ workers[1].pc = "ended" /\ workers[2].pc = "ended"
    /\ workers[1].fault # NoFault
    /\ workers[2].fault = NoFault
    /\ lastAnalysisRun = "failed"

====
